---- MODULE Spec2Model ----
(***************************************************************************)
(* PathFinder matching engine (src/lib/engines/path-matcher.ts) and the    *)
(* generate-paths route that calls it.                                     *)
(*                                                                         *)
(* The university catalog UNIVERSITIES is imported from lib/data/seed-data *)
(* and is read-only; its content is an input of the model: any sequence of *)
(* distinct universities of UniPool of length at most MaxCatalog.  The     *)
(* country catalog COUNTRIES comes from the same file.                     *)
(***************************************************************************)
EXTENDS Integers, Sequences, FiniteSets, TLC

VARIABLES
    UNIVERSITIES,          \* the catalog, in catalog order
    request,               \* body of the last POST /api/generate-paths
    eligibleUniversities,  \* generatePaths: result of step 1 of the last run
    scoredUniversities,    \* generatePaths: the list after step 3 (sorted)
    selectedPaths,         \* generatePaths: result of step 4
    response,              \* the answer of the route to the last POST
    fit,                   \* last evaluation of calculateFitScore on its own
    COUNTRIES,             \* the country catalog, in catalog order
    clock,                 \* the time new Date() returns
    previous,              \* request and response of the POST before the last
    risk,                  \* last evaluation of assessFinancialRisk on its own
    client,                \* whether the AI client was created when the modules loaded
    outcome,               \* last call of generateOutcome and what it returned
    analysis,              \* last call of analyzeSituation and what it returned
    path,                  \* last evaluation of buildPath on its own
    SCHOLARSHIPS,          \* the scholarship catalog, in catalog order
    scholarships,          \* last evaluation of findMatchingScholarships on its own
    inflight,              \* the requests being handled at the same time, by invocation
    step,                  \* profile page: the step of the wizard shown
    formData,              \* profile page: the answers given so far
    sessionStorage,        \* the items of the session storage of the browser
    pathname               \* the page the router shows

vars == <<UNIVERSITIES, request, eligibleUniversities, scoredUniversities,
          selectedPaths, response, fit, COUNTRIES, clock, previous, risk,
          client, outcome, analysis,
          path,
          SCHOLARSHIPS,
          scholarships,
          inflight,
          step,
          formData,
          sessionStorage,
          pathname>>

(***************************************************************************)
(* Bounds                                                                  *)
(***************************************************************************)
MaxCatalog == 4
MaxCountries == 2      \* length of the country catalog
MaxReloadCatalog == 2  \* length of the university catalog when a request is repeated
MaxTicks == 2          \* milliseconds that pass between two requests
MaxScholarships == 5   \* length of the scholarship catalog
MaxInvocations == 2    \* requests handled at the same time

(***************************************************************************)
(* Types (src/lib/types.ts)                                                *)
(***************************************************************************)
Undefined == "undefined"

BudgetLevel == {"low", "medium", "high"}
ConfidenceLevel == {"low", "medium", "high"}
FearType == {"money", "visa", "failure", "time"}
TeachingStyle == {"lecture-heavy", "project-based", "research-focused", "mixed"}
TuitionTier == {"free", "low", "medium", "high"}
VisaDifficulty == {"easy", "medium", "hard"}
Scale == 1..10

University(id, country, style, workload, primary, alts, tier, visa, support, rate) ==
    [id |-> id, country |-> country, teachingStyle |-> style,
     workloadIntensity |-> workload,
     languageRequirements |-> [primary |-> primary, alternatives |-> alts],
     tuition |-> [tier |-> tier],
     visaDifficulty |-> visa,
     internationalStudentSupport |-> support,
     acceptanceRate |-> rate]

CostOfLivingTier == {"low", "medium", "high"}

Country(name, tier) == [name |-> name, costOfLiving |-> [tier |-> tier]]

\* a Date: getTime() is day * MsPerDay + ms, with 0 <= ms < MsPerDay
MsPerDay == 24 * 60 * 60 * 1000

Date(day, ms) == [day |-> day, ms |-> ms]

\* The filter and the scores read the four fields that are parameters here;
\* the education stage and the current country, read by the scholarship
\* match alone, are those of a bachelor applicant from India unless Applicant
\* sets them.
StudentProfile(target, budget, fear, confidence) ==
    [targetCountry |-> target, budgetLevel |-> budget, mainFear |-> fear,
     confidenceLevel |-> confidence,
     educationStage |-> "bachelors", currentCountry |-> "India"]

Applicant(profile, stage, country) ==
    [profile EXCEPT !.educationStage = stage, !.currentCountry = country]

EducationStage == {"high_school", "bachelors", "masters", "phd", "bootcamp", "working"}

Null == "null"

\* the answers of the profile wizard before the student has given any
NoAnswers ==
    [currentCountry |-> "", targetCountry |-> "", educationStage |-> Null,
     budgetLevel |-> Null, mainFear |-> Null, confidenceLevel |-> 5]

Scholarship(country, stages, countries) ==
    [country |-> country,
     eligibility |-> [countries |-> countries, educationStage |-> stages]]

(***************************************************************************)
(* Inputs.  The first three universities are the curated records of        *)
(* src/lib/scrapers/university-scraper.ts; the others add a hard visa, a   *)
(* low workload, a third university of one country and equal scores.       *)
(***************************************************************************)
UniPool ==
    { University("uni-mit", "United States", "research-focused", 10, "English", {},
                 "high", "medium", 9, 4),
      University("uni-tum", "Germany", "research-focused", 8, "German", {"English"},
                 "free", "easy", 8, 8),
      University("uni-nus", "Singapore", "mixed", 9, "English", {},
                 "medium", "easy", 9, 5),
      University("uni-heidelberg", "Germany", "research-focused", 8, "German", {"English"},
                 "free", "easy", 8, 17),
      University("uni-lmu", "Germany", "lecture-heavy", 6, "German", {},
                 "free", "easy", 7, 30),
      University("uni-stanford", "United States", "research-focused", 10, "English", {},
                 "high", "hard", 9, 4),
      University("uni-asu", "United States", "project-based", 5, "English", {},
                 "medium", "hard", 8, 88),
      University("uni-ntu", "Singapore", "mixed", 9, "English", {},
                 "medium", "easy", 9, 36) }

PoolCountries == {u.country : u \in UniPool}

Catalogs ==
    UNION { {s \in [1..n -> UniPool] : \A i, j \in 1..n : i # j => s[i] # s[j]}
            : n \in 0..MaxCatalog }

CountryRecords == {Country(n, t) : n \in PoolCountries, t \in CostOfLivingTier}

\* country catalogs: a country may be missing, a name may occur twice
CountryCatalogs == UNION {[1..n -> CountryRecords] : n \in 0..MaxCountries}

\* the country catalog and the time of the runs of the engine as a whole
SeedCountries == <<Country("United States", "high"), Country("Germany", "medium")>>
StartTime == Date(19000, MsPerDay - 2)

\* German scholarships for one or two stages, open to every country (no
\* list, or "All" on the list) or to the countries listed, and a scholarship
\* of another country
ScholarshipPool ==
    {Scholarship("Germany", stages, countries) :
        stages \in {{"bachelors"}, {"masters", "phd"}},
        countries \in {{}, {"All"}, {"India"}}}
    \cup {Scholarship("United States", {"bachelors"}, {})}

\* scholarship catalogs: any list of scholarships, a record may occur twice
ScholarshipCatalogs == UNION {[1..n -> ScholarshipPool] : n \in 0..MaxScholarships}

\* the scholarship catalog of the runs of the engine as a whole
SeedScholarships ==
    <<Scholarship("Germany", {"bachelors"}, {}),
      Scholarship("United States", {"bachelors"}, {"India"}),
      Scholarship("Germany", {"masters", "phd"}, {"All"}),
      Scholarship("Germany", {"bachelors"}, {"All"}),
      Scholarship("Germany", {"bachelors"}, {"India"}),
      Scholarship("Germany", {"bachelors", "masters"}, {"Kenya", "All"}),
      Scholarship("Singapore", {"bachelors"}, {"Kenya"})>>

Profiles ==
    {StudentProfile(t, b, f, c) :
        t \in {Undefined} \cup PoolCountries, b \in BudgetLevel,
        f \in FearType, c \in ConfidenceLevel}

(***************************************************************************)
(* Eligibility filter (path-matcher.ts:40-66)                              *)
(***************************************************************************)
\* JavaScript truthiness of an optional string field
Truthy(x) == x # Undefined /\ x # ""

\* Variants of the filter callback, each with one constraint changed
passesHardConstraintsNoBudget(profile, uni) ==
    IF Truthy(profile.targetCountry) /\ profile.targetCountry # uni.country
    THEN FALSE
    ELSE IF profile.mainFear = "visa" /\ uni.visaDifficulty = "hard"
    THEN FALSE
    ELSE IF profile.confidenceLevel = "low" /\ uni.workloadIntensity >= 9
    THEN FALSE
    ELSE TRUE

passesHardConstraintsNoVisa(profile, uni) ==
    IF Truthy(profile.targetCountry) /\ profile.targetCountry # uni.country
    THEN FALSE
    ELSE IF profile.budgetLevel = "low" /\ uni.tuition.tier = "high"
    THEN FALSE
    ELSE IF profile.confidenceLevel = "low" /\ uni.workloadIntensity >= 9
    THEN FALSE
    ELSE TRUE

passesHardConstraintsNoTarget(profile, uni) ==
    IF profile.budgetLevel = "low" /\ uni.tuition.tier = "high"
    THEN FALSE
    ELSE IF profile.mainFear = "visa" /\ uni.visaDifficulty = "hard"
    THEN FALSE
    ELSE IF profile.confidenceLevel = "low" /\ uni.workloadIntensity >= 9
    THEN FALSE
    ELSE TRUE

passesHardConstraintsWorkload8(profile, uni) ==
    IF Truthy(profile.targetCountry) /\ profile.targetCountry # uni.country
    THEN FALSE
    ELSE IF profile.budgetLevel = "low" /\ uni.tuition.tier = "high"
    THEN FALSE
    ELSE IF profile.mainFear = "visa" /\ uni.visaDifficulty = "hard"
    THEN FALSE
    ELSE IF profile.confidenceLevel = "low" /\ uni.workloadIntensity >= 8
    THEN FALSE
    ELSE TRUE

\* Variant: the visa constraint rejects "medium" where the code rejects "hard"
passesHardConstraintsVisaMedium(profile, uni) ==
    IF Truthy(profile.targetCountry) /\ profile.targetCountry # uni.country
    THEN FALSE
    ELSE IF profile.budgetLevel = "low" /\ uni.tuition.tier = "high"
    THEN FALSE
    ELSE IF profile.mainFear = "visa" /\ uni.visaDifficulty = "medium"
    THEN FALSE
    ELSE IF profile.confidenceLevel = "low" /\ uni.workloadIntensity >= 9
    THEN FALSE
    ELSE TRUE

\* the callback of UNIVERSITIES.filter: TRUE when uni is kept
passesHardConstraints(profile, uni) ==
    IF Truthy(profile.targetCountry) /\ profile.targetCountry # uni.country
    THEN FALSE
    ELSE IF profile.budgetLevel = "low" /\ uni.tuition.tier = "high"
    THEN FALSE
    ELSE IF profile.mainFear = "visa" /\ uni.visaDifficulty = "hard"
    THEN FALSE
    ELSE IF profile.confidenceLevel = "low" /\ uni.workloadIntensity >= 9
    THEN FALSE
    ELSE TRUE

\* Array.prototype.filter: the kept elements, in the order of the array
RECURSIVE Filter(_, _, _)
Filter(seq, profile, i) ==
    IF i > Len(seq) THEN <<>>
    ELSE IF passesHardConstraints(profile, seq[i])
         THEN <<seq[i]>> \o Filter(seq, profile, i + 1)
         ELSE Filter(seq, profile, i + 1)

filterEligibleUniversities(profile) == Filter(UNIVERSITIES, profile, 1)

(***************************************************************************)
(* Fit scorer (path-matcher.ts:71-148)                                     *)
(***************************************************************************)
Max(a, b) == IF a >= b THEN a ELSE b

calculateTeachingFit(profile, uni) ==
    IF profile.confidenceLevel = "high" /\ uni.teachingStyle = "research-focused"
    THEN 90
    ELSE IF profile.confidenceLevel = "low" /\ uni.teachingStyle = "lecture-heavy"
    THEN 85
    ELSE IF uni.teachingStyle = "mixed"
    THEN 80
    ELSE 70

confidenceMap == [low |-> 5, medium |-> 7, high |-> 10]

\* Variant: the same penalty above and below the tolerated workload
calculateWorkloadFitSymmetric(profile, uni) ==
    LET maxWorkload == confidenceMap[profile.confidenceLevel]
    IN  IF uni.workloadIntensity <= maxWorkload
        THEN 100 - (maxWorkload - uni.workloadIntensity) * 5
        ELSE Max(0, 100 - (uni.workloadIntensity - maxWorkload) * 5)

\* NaN, written as a number that no score takes.  A profile without a
\* confidence level makes every overall score of a run NaN, the comparator of
\* the sort then returns NaN for every pair, which sort treats as 0: the
\* order of the catalog is kept, as it is among equal numbers.
NaN == 0 - 1

\* without a confidence level maxWorkload is undefined: the comparison is
\* false and Math.max(0, NaN) is NaN
calculateWorkloadFit(profile, uni) ==
    IF profile.confidenceLevel \notin DOMAIN confidenceMap THEN NaN
    ELSE LET maxWorkload == confidenceMap[profile.confidenceLevel]
         IN  IF uni.workloadIntensity <= maxWorkload
             THEN 100 - (maxWorkload - uni.workloadIntensity) * 5
             ELSE Max(0, 100 - (uni.workloadIntensity - maxWorkload) * 15)

calculateLanguageFit(profile, uni) ==
    IF uni.languageRequirements.primary = "English"
    THEN 95
    ELSE IF "English" \in uni.languageRequirements.alternatives
    THEN 80
    ELSE 60

\* Variant: a high budget against high tuition scores 80
budgetMapHigh80 ==
    [low    |-> [free |-> 100, low |-> 90, medium |-> 40, high |-> 10],
     medium |-> [free |-> 100, low |-> 95, medium |-> 85, high |-> 50],
     high   |-> [free |-> 100, low |-> 95, medium |-> 90, high |-> 80]]

budgetMap ==
    [low    |-> [free |-> 100, low |-> 90, medium |-> 40, high |-> 10],
     medium |-> [free |-> 100, low |-> 95, medium |-> 85, high |-> 50],
     high   |-> [free |-> 100, low |-> 95, medium |-> 90, high |-> 85]]

calculateCostFit(profile, uni) == budgetMap[profile.budgetLevel][uni.tuition.tier]

strictDifficultyMap == [easy |-> 100, medium |-> 60, hard |-> 20]
lenientDifficultyMap == [easy |-> 100, medium |-> 85, hard |-> 70]

calculateVisaFit(profile, uni) ==
    IF profile.mainFear = "visa"
    THEN strictDifficultyMap[uni.visaDifficulty]
    ELSE lenientDifficultyMap[uni.visaDifficulty]

\* Variant: truncation instead of rounding
MathRoundFloor(hundredths) == hundredths \div 100

\* Math.round of a non-negative number given in hundredths: the nearest
\* integer, a half rounding up.  Every weighted sum of the engine is a
\* multiple of 0.25 whose double-precision evaluation is exact at the halves,
\* so the integer computation gives the value Math.round returns.
MathRound(hundredths) == (hundredths + 50) \div 100

\* the weights 0.2, 0.15, 0.15, 0.25, 0.15, 0.1 in hundredths
weightedSum(scores) ==
    scores.teaching * 20 + scores.workload * 15 + scores.language * 15
    + scores.cost * 25 + scores.visa * 15 + scores.support * 10

calculateFitScore(profile, uni) ==
    LET scores == [teaching |-> calculateTeachingFit(profile, uni),
                   workload |-> calculateWorkloadFit(profile, uni),
                   language |-> calculateLanguageFit(profile, uni),
                   cost     |-> calculateCostFit(profile, uni),
                   visa     |-> calculateVisaFit(profile, uni),
                   support  |-> uni.internationalStudentSupport * 10]
    IN  [overall   |-> IF scores.workload = NaN THEN NaN
                       ELSE MathRound(weightedSum(scores)),
         breakdown |-> scores]

(***************************************************************************)
(* Sorting (path-matcher.ts:28): Array.prototype.sort is stable, the       *)
(* comparator b.overall - a.overall orders by descending overall score.    *)
(***************************************************************************)
\* Variant: an unstable sort, an element goes before the elements of equal score
RECURSIVE InsertByFitUnstable(_, _)
InsertByFitUnstable(x, sorted) ==
    IF sorted = <<>> THEN <<x>>
    ELSE IF Head(sorted).fitScore.overall - x.fitScore.overall > 0
         THEN <<Head(sorted)>> \o InsertByFitUnstable(x, Tail(sorted))
         ELSE <<x>> \o sorted

\* x goes behind every element that does not compare after it
RECURSIVE InsertByFit(_, _)
InsertByFit(x, sorted) ==
    IF sorted = <<>> THEN <<x>>
    ELSE IF Head(sorted).fitScore.overall - x.fitScore.overall >= 0
         THEN <<Head(sorted)>> \o InsertByFit(x, Tail(sorted))
         ELSE <<x>> \o sorted

\* Variant: the list is left in catalog order
sortByFitNone(seq) == seq

RECURSIVE sortByFit(_)
sortByFit(seq) ==
    IF seq = <<>> THEN <<>>
    ELSE InsertByFit(seq[Len(seq)], sortByFit(SubSeq(seq, 1, Len(seq) - 1)))

(***************************************************************************)
(* Diversity selector (path-matcher.ts:153-181).  The items of scored are  *)
(* distinct objects, so selected.includes(item) compares positions: a      *)
(* selection is the sequence of the positions in scored that were pushed.  *)
(***************************************************************************)
Range(seq) == {seq[i] : i \in DOMAIN seq}

\* Variant: no country check, the first count entries are taken
RECURSIVE diversityLoopTopN(_, _, _, _, _)
diversityLoopTopN(scored, count, i, selected, countries) ==
    IF i > Len(scored) \/ Len(selected) >= count
    THEN selected
    ELSE diversityLoopTopN(scored, count, i + 1, Append(selected, i),
                           countries \cup {scored[i].university.country})

\* Variant: the country check starts at the second slot
RECURSIVE diversityLoopFromSecond(_, _, _, _, _)
diversityLoopFromSecond(scored, count, i, selected, countries) ==
    IF i > Len(scored) \/ Len(selected) >= count
    THEN selected
    ELSE IF Len(selected) < 1 \/ scored[i].university.country \notin countries
         THEN diversityLoopFromSecond(scored, count, i + 1, Append(selected, i),
                                      countries \cup {scored[i].university.country})
         ELSE diversityLoopFromSecond(scored, count, i + 1, selected, countries)

\* the for-of loop, from position i on
RECURSIVE diversityLoop(_, _, _, _, _)
diversityLoop(scored, count, i, selected, countries) ==
    IF i > Len(scored) \/ Len(selected) >= count
    THEN selected
    ELSE IF Len(selected) < 2 \/ scored[i].university.country \notin countries
         THEN diversityLoop(scored, count, i + 1, Append(selected, i),
                            countries \cup {scored[i].university.country})
         ELSE diversityLoop(scored, count, i + 1, selected, countries)

\* Variant: the candidates already selected stay among the remaining ones
RECURSIVE remainingFromAny(_, _, _)
remainingFromAny(scored, selected, i) ==
    IF i > Len(scored) THEN <<>>
    ELSE <<i>> \o remainingFromAny(scored, selected, i + 1)

\* scored.filter(item => !selected.includes(item)), as positions
RECURSIVE remainingFrom(_, _, _)
remainingFrom(scored, selected, i) ==
    IF i > Len(scored) THEN <<>>
    ELSE IF i \notin Range(selected)
         THEN <<i>> \o remainingFrom(scored, selected, i + 1)
         ELSE remainingFrom(scored, selected, i + 1)

\* Variant: the remaining slots are left empty
fillRemainingNone(scored, count, selected) == selected

\* the while loop that fills the remaining slots
RECURSIVE fillRemaining(_, _, _)
fillRemaining(scored, count, selected) ==
    IF Len(selected) < count /\ Len(selected) < Len(scored)
    THEN LET remaining == remainingFrom(scored, selected, 1)
         IN  IF Len(remaining) > 0
             THEN fillRemaining(scored, count, Append(selected, remaining[1]))
             ELSE selected
    ELSE selected

\* the positions selected, in selection order
selectDiversePositions(scored, count) ==
    fillRemaining(scored, count, diversityLoop(scored, count, 1, <<>>, {}))

selectDiversePaths(scored, count) ==
    LET positions == selectDiversePositions(scored, count)
    IN  [k \in 1..Len(positions) |-> scored[positions[k]]]

(***************************************************************************)
(* Path assembly and generatePaths (path-matcher.ts:17-35, 186-204)        *)
(***************************************************************************)
\* COUNTRIES.find(c => c.name === name): the first match, or none (undefined)
find(countries, name) ==
    LET hits == {i \in 1..Len(countries) : countries[i].name = name}
    IN  IF hits = {} THEN <<>>
        ELSE <<countries[CHOOSE i \in hits : \A j \in hits : i <= j]>>

budgetMismatch(profile, uni) ==
    \/ profile.budgetLevel = "low" /\ uni.tuition.tier = "medium"
    \/ profile.budgetLevel = "medium" /\ uni.tuition.tier = "high"

\* Variant: a medium cost of living counts as high
highCostOfLivingFromMedium(uni) ==
    LET country == find(COUNTRIES, uni.country)
    IN  country # <<>> /\ country[1].costOfLiving.tier \in {"medium", "high"}

\* country?.costOfLiving.tier === "high": false when the lookup finds nothing
highCostOfLiving(uni) ==
    LET country == find(COUNTRIES, uni.country)
    IN  country # <<>> /\ country[1].costOfLiving.tier = "high"

\* Variant: the cost of living of the country is not looked at
assessFinancialRiskTuitionOnly(profile, uni) ==
    [severity    |-> IF budgetMismatch(profile, uni) THEN "high" ELSE "low",
     likelihood  |-> IF budgetMismatch(profile, uni) THEN 70 ELSE 30,
     description |-> IF budgetMismatch(profile, uni)
                     THEN "Tuition may exceed your " \o profile.budgetLevel \o " budget"
                     ELSE "Costs are manageable with " \o profile.budgetLevel \o " budget"]

\* Variant: a country that is not in the catalog counts as expensive
assessFinancialRiskMissingIsHigh(profile, uni) ==
    [severity    |-> IF \/ budgetMismatch(profile, uni)
                        \/ highCostOfLiving(uni)
                        \/ find(COUNTRIES, uni.country) = <<>>
                     THEN "high" ELSE "low",
     likelihood  |-> IF budgetMismatch(profile, uni) THEN 70 ELSE 30,
     description |-> IF budgetMismatch(profile, uni)
                     THEN "Tuition may exceed your " \o profile.budgetLevel \o " budget"
                     ELSE "Costs are manageable with " \o profile.budgetLevel \o " budget"]

\* the amount and currency inside the description and the fixed mitigation
\* list are left out
assessFinancialRisk(profile, uni) ==
    [severity    |-> IF budgetMismatch(profile, uni) \/ highCostOfLiving(uni)
                     THEN "high" ELSE "low",
     likelihood  |-> IF budgetMismatch(profile, uni) THEN 70 ELSE 30,
     description |-> IF budgetMismatch(profile, uni)
                     THEN "Tuition may exceed your " \o profile.budgetLevel \o " budget"
                     ELSE "Costs are manageable with " \o profile.budgetLevel \o " budget"]

severityMap == [easy |-> "low", medium |-> "medium", hard |-> "high"]
likelihoodMap == [easy |-> 10, medium |-> 30, hard |-> 60]

assessVisaRisk(profile, uni) ==
    [severity    |-> severityMap[uni.visaDifficulty],
     likelihood  |-> likelihoodMap[uni.visaDifficulty],
     description |-> "Visa difficulty is " \o uni.visaDifficulty \o " for " \o uni.country]

\* Variant: the capacities are the workloads the fit scorer tolerates
academicConfidenceMapAsFit == [low |-> 5, medium |-> 7, high |-> 10]

academicConfidenceMap == [low |-> 3, medium |-> 7, high |-> 10]

\* Variant: a workload equal to the capacity is an overload already
overloadAtCapacity(profile, uni) ==
    /\ profile.confidenceLevel \in DOMAIN academicConfidenceMap
    /\ uni.workloadIntensity >= academicConfidenceMap[profile.confidenceLevel]

\* without a confidence level studentCapacity is undefined: not an overload
overload(profile, uni) ==
    /\ profile.confidenceLevel \in DOMAIN academicConfidenceMap
    /\ uni.workloadIntensity > academicConfidenceMap[profile.confidenceLevel]

assessAcademicRisk(profile, uni) ==
    [severity    |-> IF overload(profile, uni) THEN "high" ELSE "low",
     likelihood  |-> IF overload(profile, uni) THEN 60 ELSE 20,
     description |-> IF overload(profile, uni)
                     THEN "Workload intensity may be challenging for your "
                          \o profile.confidenceLevel \o " confidence level"
                     ELSE "Workload is manageable for your confidence level"]

assessTimeRisk(profile, uni) ==
    [severity    |-> "medium",
     likelihood  |-> 40,
     description |-> "Potential delays in graduation or visa processing"]

assessRisks(profile, uni) ==
    [financial |-> assessFinancialRisk(profile, uni),
     visa      |-> assessVisaRisk(profile, uni),
     academic  |-> assessAcademicRisk(profile, uni),
     time      |-> assessTimeRisk(profile, uni)]

\* Variant: only a workload above 9 counts as not relaxed
generateExclusionsAboveNine(profile, uni) ==
    (IF uni.workloadIntensity > 9
     THEN <<"you prefer a relaxed academic environment">> ELSE <<>>)
    \o (IF uni.tuition.tier = "high"
        THEN <<"you have strict budget constraints">> ELSE <<>>)
    \o (IF /\ uni.languageRequirements.primary # "English"
           /\ "English" \notin uni.languageRequirements.alternatives
        THEN <<"you're not comfortable learning in "
               \o uni.languageRequirements.primary>>
        ELSE <<>>)
    \o (IF uni.acceptanceRate < 10
        THEN <<"you need a safer acceptance option">> ELSE <<>>)

generateExclusions(profile, uni) ==
    (IF uni.workloadIntensity >= 9
     THEN <<"you prefer a relaxed academic environment">> ELSE <<>>)
    \o (IF uni.tuition.tier = "high"
        THEN <<"you have strict budget constraints">> ELSE <<>>)
    \o (IF /\ uni.languageRequirements.primary # "English"
           /\ "English" \notin uni.languageRequirements.alternatives
        THEN <<"you're not comfortable learning in "
               \o uni.languageRequirements.primary>>
        ELSE <<>>)
    \o (IF uni.acceptanceRate < 10
        THEN <<"you need a safer acceptance option">> ELSE <<>>)

\* the callback of SCHOLARSHIPS.filter
matches(profile, uni, sch) ==
    /\ sch.country = uni.country
    /\ profile.educationStage \in sch.eligibility.educationStage
    /\ ~ /\ sch.eligibility.countries # {}
         /\ profile.currentCountry \notin sch.eligibility.countries
         /\ "All" \notin sch.eligibility.countries

RECURSIVE filterScholarships(_, _, _)
filterScholarships(profile, uni, i) ==
    IF i > Len(SCHOLARSHIPS) THEN <<>>
    ELSE IF matches(profile, uni, SCHOLARSHIPS[i])
         THEN <<SCHOLARSHIPS[i]>> \o filterScholarships(profile, uni, i + 1)
         ELSE filterScholarships(profile, uni, i + 1)

\* Variant: every matching scholarship is attached
findMatchingScholarshipsAll(profile, uni) == filterScholarships(profile, uni, 1)

\* filter(...).slice(0, 3)
findMatchingScholarships(profile, uni) ==
    LET matching == filterScholarships(profile, uni, 1)
    IN  IF Len(matching) <= 3 THEN matching ELSE SubSeq(matching, 1, 3)

\* new Date(date.getTime() + days * 24 * 60 * 60 * 1000)
plusDays(date, days) == Date(date.day + days, date.ms)

\* new Date(date.getTime() + 1)
plusMillisecond(date) ==
    IF date.ms + 1 < MsPerDay THEN Date(date.day, date.ms + 1)
    ELSE Date(date.day + 1, 0)

\* Variant: the program starts twelve months of thirty days from now
generateTimelineShortYear(profile, uni) ==
    LET now == clock
    IN  <<[id |-> "evt-1", date |-> plusDays(now, 180),
           title |-> "Application Deadline", type |-> "deadline",
           importance |-> "high"],
          [id |-> "evt-2", date |-> plusDays(now, 270),
           title |-> "Visa Application", type |-> "decision",
           importance |-> "high"],
          [id |-> "evt-3", date |-> plusDays(now, 12 * 30),
           title |-> "Program Starts", type |-> "milestone",
           importance |-> "high"]>>

\* the three events, now being the time of the call
generateTimeline(profile, uni) ==
    LET now == clock
    IN  <<[id |-> "evt-1", date |-> plusDays(now, 180),
           title |-> "Application Deadline", type |-> "deadline",
           importance |-> "high"],
          [id |-> "evt-2", date |-> plusDays(now, 270),
           title |-> "Visa Application", type |-> "decision",
           importance |-> "high"],
          [id |-> "evt-3", date |-> plusDays(now, 365),
           title |-> "Program Starts", type |-> "milestone",
           importance |-> "high"]>>

\* name and description are left out: they rest on fields of the university
\* that the model does not hold
buildPath(profile, uni, fitScore) ==
    [id |-> "path-" \o uni.id, type |-> "university", fitScore |-> fitScore,
     risks |-> assessRisks(profile, uni),
     notForYouIf |-> generateExclusions(profile, uni),
     details |-> uni,
     scholarships |-> findMatchingScholarships(profile, uni),
     timeline |-> generateTimeline(profile, uni)]

\* Variant: two paths are asked for
PathCountTwo == 3 - 1

PathCount == 3

scoreAll(profile, unis) ==
    [i \in 1..Len(unis) |->
        [university |-> unis[i], fitScore |-> calculateFitScore(profile, unis[i])]]

generatePaths(profile) ==
    LET eligible == filterEligibleUniversities(profile)
        scored   == sortByFit(scoreAll(profile, eligible))
        selected == selectDiversePaths(scored, PathCount)
    IN  [k \in 1..Len(selected) |->
            buildPath(profile, selected[k].university, selected[k].fitScore)]

(***************************************************************************)
(* The generate-paths route (POST, route.ts:5-20)                          *)
(***************************************************************************)
NoProfile == StudentProfile(Undefined, Undefined, Undefined, Undefined)

NoRequest == [body |-> "none", profile |-> NoProfile]
NoResponse == [status |-> 0, paths |-> <<>>, error |-> ""]

\* an invocation of the route that has not received a request
Invocations == 1..MaxInvocations
Idle == [stage |-> "idle", request |-> NoRequest, response |-> NoResponse]

\* a request body is the JSON of a StudentProfile, or text that is not JSON
RequestBodies ==
    {[body |-> "profile", profile |-> p] : p \in Profiles}
    \cup {[body |-> "malformed", profile |-> NoProfile]}

\* budgetMap[profile.budgetLevel] is undefined for a profile without a budget
\* level: calculateCostFit throws a TypeError at the first eligible university
throwsTypeError(profile, eligible) ==
    profile.budgetLevel \notin DOMAIN budgetMap /\ eligible # <<>>

\* Variant: an empty result is answered as a failure
POSTEmptyIsError(req) ==
    /\ request' = req
    /\ IF req.body = "malformed"
       THEN /\ eligibleUniversities' = <<>>
            /\ scoredUniversities' = <<>>
            /\ selectedPaths' = <<>>
            /\ response' = [status |-> 500, paths |-> <<>>,
                            error |-> "Failed to generate paths"]
       ELSE LET profile  == req.profile
                eligible == filterEligibleUniversities(profile)
                scored   == sortByFit(scoreAll(profile, eligible))
                paths    == generatePaths(profile)
            IN  /\ eligibleUniversities' = eligible
                /\ scoredUniversities' = scored
                /\ selectedPaths' = selectDiversePaths(scored, PathCount)
                /\ response' = IF paths = <<>>
                               THEN [status |-> 500, paths |-> <<>>,
                                     error |-> "Failed to generate paths"]
                               ELSE [status |-> 200, paths |-> paths, error |-> ""]
    /\ previous' = [request |-> request, response |-> response]
    /\ UNCHANGED <<UNIVERSITIES, fit, COUNTRIES, clock, risk,
                   client, outcome, analysis,
                   path,
                   SCHOLARSHIPS,
                   scholarships,
                   inflight,
                   step,
                   formData,
                   sessionStorage,
                   pathname>>

POST(req) ==
    /\ request' = req
    /\ IF req.body = "malformed"
       THEN \* request.json() throws: the catch block answers
            /\ eligibleUniversities' = <<>>
            /\ scoredUniversities' = <<>>
            /\ selectedPaths' = <<>>
            /\ response' = [status |-> 500, paths |-> <<>>,
                            error |-> "Failed to generate paths"]
       ELSE IF throwsTypeError(req.profile, filterEligibleUniversities(req.profile))
       THEN \* the filter has run, the scoring throws: the catch block answers
            /\ eligibleUniversities' = filterEligibleUniversities(req.profile)
            /\ scoredUniversities' = <<>>
            /\ selectedPaths' = <<>>
            /\ response' = [status |-> 500, paths |-> <<>>,
                            error |-> "Failed to generate paths"]
       ELSE LET profile  == req.profile
                eligible == filterEligibleUniversities(profile)
                scored   == sortByFit(scoreAll(profile, eligible))
            IN  /\ eligibleUniversities' = eligible
                /\ scoredUniversities' = scored
                /\ selectedPaths' = selectDiversePaths(scored, PathCount)
                /\ response' = [status |-> 200, paths |-> generatePaths(profile),
                                error |-> ""]
    /\ previous' = [request |-> request, response |-> response]
    /\ UNCHANGED <<UNIVERSITIES, fit, COUNTRIES, clock, risk,
                   client, outcome, analysis,
                   path,
                   SCHOLARSHIPS,
                   scholarships,
                   inflight,
                   step,
                   formData,
                   sessionStorage,
                   pathname>>

Init ==
    /\ UNIVERSITIES \in Catalogs
    /\ request = NoRequest
    /\ eligibleUniversities = <<>>
    /\ scoredUniversities = <<>>
    /\ selectedPaths = <<>>
    /\ response = NoResponse
    /\ fit = <<>>
    /\ COUNTRIES = SeedCountries
    /\ clock = StartTime
    /\ previous = [request |-> NoRequest, response |-> NoResponse]
    /\ risk = <<>>
    /\ client = FALSE
    /\ outcome = <<>>
    /\ analysis = <<>>
    /\ path = <<>>
    /\ SCHOLARSHIPS = SeedScholarships
    /\ scholarships = <<>>
    /\ inflight = [i \in Invocations |-> Idle]
    /\ step = 1
    /\ formData = NoAnswers
    /\ sessionStorage = [studentProfile |-> <<>>]
    /\ pathname = "/profile"

\* The route and the engine keep no state between requests, so a behaviour is
\* one request against one catalog.
Next ==
    /\ request = NoRequest
    /\ \E req \in RequestBodies : POST(req)

Spec == Init /\ [][Next]_vars

(***************************************************************************)
(* calculateFitScore on its own: every profile against every university    *)
(* whose scored fields range over their whole type.                        *)
(***************************************************************************)
ScoringProfiles ==
    {StudentProfile(Undefined, b, f, c) :
        b \in BudgetLevel, f \in FearType, c \in ConfidenceLevel}

LanguageRequirements ==
    {[primary |-> "English", alternatives |-> {}],
     [primary |-> "German", alternatives |-> {"English"}],
     [primary |-> "German", alternatives |-> {}]}

AllUniversities ==
    {[id |-> "uni", country |-> "Germany", teachingStyle |-> style,
      workloadIntensity |-> workload, languageRequirements |-> language,
      tuition |-> [tier |-> tier], visaDifficulty |-> visa,
      internationalStudentSupport |-> support, acceptanceRate |-> 50] :
        style \in TeachingStyle, workload \in Scale,
        language \in LanguageRequirements, tier \in TuitionTier,
        visa \in VisaDifficulty, support \in Scale}

Score(profile, uni) ==
    /\ fit' = <<[profile |-> profile, university |-> uni,
                 fitScore |-> calculateFitScore(profile, uni)]>>
    /\ UNCHANGED <<UNIVERSITIES, request, eligibleUniversities,
                   scoredUniversities, selectedPaths, response,
                   COUNTRIES, clock, previous, risk,
                   client, outcome, analysis,
                   path,
                   SCHOLARSHIPS,
                   scholarships,
                   inflight,
                   step,
                   formData,
                   sessionStorage,
                   pathname>>

InitFit ==
    /\ UNIVERSITIES = <<>>
    /\ request = NoRequest
    /\ eligibleUniversities = <<>>
    /\ scoredUniversities = <<>>
    /\ selectedPaths = <<>>
    /\ response = NoResponse
    /\ fit = <<>>
    /\ COUNTRIES = SeedCountries
    /\ clock = StartTime
    /\ previous = [request |-> NoRequest, response |-> NoResponse]
    /\ risk = <<>>
    /\ client = FALSE
    /\ outcome = <<>>
    /\ analysis = <<>>
    /\ path = <<>>
    /\ SCHOLARSHIPS = SeedScholarships
    /\ scholarships = <<>>
    /\ inflight = [i \in Invocations |-> Idle]
    /\ step = 1
    /\ formData = NoAnswers
    /\ sessionStorage = [studentProfile |-> <<>>]
    /\ pathname = "/profile"

\* one evaluation per behaviour: calculateFitScore is a function of its inputs
NextFit ==
    /\ fit = <<>>
    /\ \E profile \in ScoringProfiles, uni \in AllUniversities : Score(profile, uni)

SpecFit == InitFit /\ [][NextFit]_vars

(***************************************************************************)
(* assessFinancialRisk on its own: every profile against a university of   *)
(* every country and tuition tier, under every country catalog.            *)
(***************************************************************************)
RiskUniversities ==
    {University("uni", country, "mixed", 5, "English", {}, tier, "easy", 5, 50) :
        country \in PoolCountries, tier \in TuitionTier}

Assess(profile, uni) ==
    /\ risk' = <<[profile |-> profile, university |-> uni,
                  financial |-> assessFinancialRisk(profile, uni)]>>
    /\ UNCHANGED <<UNIVERSITIES, request, eligibleUniversities,
                   scoredUniversities, selectedPaths, response, fit,
                   COUNTRIES, clock, previous,
                   client, outcome, analysis,
                   path,
                   SCHOLARSHIPS,
                   scholarships,
                   inflight,
                   step,
                   formData,
                   sessionStorage,
                   pathname>>

InitRisk ==
    /\ UNIVERSITIES = <<>>
    /\ request = NoRequest
    /\ eligibleUniversities = <<>>
    /\ scoredUniversities = <<>>
    /\ selectedPaths = <<>>
    /\ response = NoResponse
    /\ fit = <<>>
    /\ COUNTRIES \in CountryCatalogs
    /\ clock = StartTime
    /\ previous = [request |-> NoRequest, response |-> NoResponse]
    /\ risk = <<>>
    /\ client = FALSE
    /\ outcome = <<>>
    /\ analysis = <<>>
    /\ path = <<>>
    /\ SCHOLARSHIPS = SeedScholarships
    /\ scholarships = <<>>
    /\ inflight = [i \in Invocations |-> Idle]
    /\ step = 1
    /\ formData = NoAnswers
    /\ sessionStorage = [studentProfile |-> <<>>]
    /\ pathname = "/profile"

NextRisk ==
    /\ risk = <<>>
    /\ \E profile \in ScoringProfiles, uni \in RiskUniversities : Assess(profile, uni)

SpecRisk == InitRisk /\ [][NextRisk]_vars

(***************************************************************************)
(* The paths page posts the saved profile again when it is loaded again    *)
(* (app/paths/page.tsx): the same request is answered twice, and time      *)
(* passes in between.                                                      *)
(***************************************************************************)
ReloadCatalogs == {c \in Catalogs : Len(c) <= MaxReloadCatalog}

\* the time n milliseconds after StartTime
RECURSIVE TimeAfter(_)
TimeAfter(n) == IF n = 0 THEN StartTime ELSE plusMillisecond(TimeAfter(n - 1))

Tick ==
    /\ clock' = plusMillisecond(clock)
    /\ UNCHANGED <<UNIVERSITIES, request, eligibleUniversities,
                   scoredUniversities, selectedPaths, response, fit,
                   COUNTRIES, previous, risk,
                   client, outcome, analysis,
                   path,
                   SCHOLARSHIPS,
                   scholarships,
                   inflight,
                   step,
                   formData,
                   sessionStorage,
                   pathname>>

Reload == POST(request)

InitReload ==
    /\ UNIVERSITIES \in ReloadCatalogs
    /\ request = NoRequest
    /\ eligibleUniversities = <<>>
    /\ scoredUniversities = <<>>
    /\ selectedPaths = <<>>
    /\ response = NoResponse
    /\ fit = <<>>
    /\ COUNTRIES = SeedCountries
    /\ clock = StartTime
    /\ previous = [request |-> NoRequest, response |-> NoResponse]
    /\ risk = <<>>
    /\ client = FALSE
    /\ outcome = <<>>
    /\ analysis = <<>>
    /\ path = <<>>
    /\ SCHOLARSHIPS = SeedScholarships
    /\ scholarships = <<>>
    /\ inflight = [i \in Invocations |-> Idle]
    /\ step = 1
    /\ formData = NoAnswers
    /\ sessionStorage = [studentProfile |-> <<>>]
    /\ pathname = "/profile"

NextReload ==
    \/ /\ request = NoRequest
       /\ \E req \in RequestBodies : POST(req)
    \/ /\ previous.request = NoRequest
       /\ \E n \in 0..(MaxTicks - 1) : clock = TimeAfter(n)
       /\ Tick
    \/ /\ request # NoRequest
       /\ previous.request = NoRequest
       /\ Reload

SpecReload == InitReload /\ [][NextReload]_vars

(***************************************************************************)
(* The route hands request.json() to generatePaths as it is: a body whose  *)
(* JSON lacks budgetLevel, mainFear or confidenceLevel is a profile in     *)
(* which the field is undefined.                                           *)
(***************************************************************************)
IncompleteProfiles ==
    {StudentProfile(t, b, f, c) :
        t \in {Undefined} \cup PoolCountries,
        b \in {Undefined} \cup BudgetLevel,
        f \in {Undefined} \cup FearType,
        c \in {Undefined} \cup ConfidenceLevel} \ Profiles

IncompleteBodies == {[body |-> "profile", profile |-> p] : p \in IncompleteProfiles}

NextIncomplete ==
    /\ request = NoRequest
    /\ \E req \in IncompleteBodies : POST(req)

SpecIncomplete == Init /\ [][NextIncomplete]_vars

(***************************************************************************)
(* The outcome generator (lib/ai-reasoning/outcome-generator.ts)           *)
(***************************************************************************)
SituationType ==
    {"dont_know", "study_abroad", "unsure_choice", "something_wrong", "explore_safely"}

\* the route passes on whatever truthy situation the body names
Situations == SituationType \cup {"other"}

\* JSON values as far as the generators look into them: null, an array, or
\* an object whose member "options" is absent, null or an array
JSONValue(json, options) == [json |-> json, options |-> options]

EmptyObject == JSONValue("object", "absent")

JSONValues ==
    {JSONValue("null", "absent"), JSONValue("array", "absent")}
    \cup {JSONValue("object", o) : o \in {"absent", "null", "array"}}

\* message.content of the first choice: absent, or a text that is or is not
\* JSON, with or without a ```json ... ``` fence around it
Content(present, fenced, valid, value) ==
    [present |-> present, fenced |-> fenced, valid |-> valid, value |-> value]

NoContent == Content(FALSE, FALSE, FALSE, EmptyObject)

Contents ==
    {NoContent}
    \cup {Content(TRUE, f, TRUE, v) : f \in BOOLEAN, v \in JSONValues}
    \cup {Content(TRUE, f, FALSE, EmptyObject) : f \in BOOLEAN}

\* client.chat.completions.create either throws or returns a response
Completions ==
    {[throws |-> TRUE, content |-> NoContent]}
    \cup {[throws |-> FALSE, content |-> c] : c \in Contents}

\* content || "{}"
orEmptyObject(content) ==
    IF content.present THEN content ELSE Content(TRUE, FALSE, TRUE, EmptyObject)

\* content.replace(/```json/g, "").replace(/```/g, "").trim()
clean(content) == [content EXCEPT !.fenced = FALSE]

\* JSON.parse throws on a text that is not JSON, a fenced text is not JSON
parseThrows(text) == text.fenced \/ ~text.valid

parseJSONFromAI(content) ==
    IF parseThrows(clean(content)) THEN EmptyObject ELSE clean(content).value

JourneyOutcome(type, title, data) == [type |-> type, title |-> title, data |-> data]

\* the data of an outcome: a parsed JSON value, the three stock options, the
\* empty object of a static answer, or the paths of the engine
Data(kind, json, paths) == [kind |-> kind, json |-> json, paths |-> paths]

getMockExplorationMap ==
    JourneyOutcome("exploration_map", "Possibility Map (Offline Mode)",
                   Data("mock", EmptyObject, <<>>))

\* data.options throws when data is null: the catch block answers
generateExplorationMap(completion) ==
    IF ~client THEN getMockExplorationMap
    ELSE IF completion.throws THEN getMockExplorationMap
    ELSE LET data == parseJSONFromAI(orEmptyObject(completion.content))
         IN  IF data.json = "null" THEN getMockExplorationMap
             ELSE JourneyOutcome("exploration_map", "Possibility Map",
                                 IF data.options = "array"
                                 THEN Data("options", data, <<>>)
                                 ELSE getMockExplorationMap.data)

validateDecision(completion) ==
    IF ~client
    THEN JourneyOutcome("decision_validation", "Analysis Failed",
                        Data("static", EmptyObject, <<>>))
    ELSE IF completion.throws
    THEN JourneyOutcome("decision_validation", "Error",
                        Data("error", EmptyObject, <<>>))
    ELSE JourneyOutcome("decision_validation", "Decision Analysis",
                        Data("json", parseJSONFromAI(orEmptyObject(completion.content)),
                             <<>>))

generateRecoveryPlan(completion) ==
    IF ~client
    THEN JourneyOutcome("recovery_plan", "Plan", Data("static", EmptyObject, <<>>))
    ELSE IF completion.throws
    THEN JourneyOutcome("recovery_plan", "Error", Data("static", EmptyObject, <<>>))
    ELSE JourneyOutcome("recovery_plan", "Recovery Strategy",
                        Data("json", parseJSONFromAI(orEmptyObject(completion.content)),
                             <<>>))

generateInfoBoard(completion) ==
    IF ~client
    THEN JourneyOutcome("info_board", "Info", Data("static", EmptyObject, <<>>))
    ELSE IF completion.throws
    THEN JourneyOutcome("info_board", "Error", Data("static", EmptyObject, <<>>))
    ELSE JourneyOutcome("info_board", "Curated Insights",
                        Data("json", parseJSONFromAI(orEmptyObject(completion.content)),
                             <<>>))

\* the answers of the request body: absent, null, or an object whose members
\* "target-country" and "budget" are absent (Undefined) or texts
Answers(kind, target, budget) == [kind |-> kind, target |-> target, budget |-> budget]

BudgetAnswers == {"Low", "HIGH", "Medium", "high or low"}

AnswerSets ==
    {Answers("undefined", Undefined, Undefined), Answers("null", Undefined, Undefined)}
    \cup {Answers("object", t, b) :
            t \in {Undefined, ""} \cup PoolCountries,
            b \in {Undefined} \cup BudgetAnswers}

\* input.toLowerCase() on the texts of BudgetAnswers and on ""
toLowerCase(input) ==
    CASE input = "Low" -> "low"
      [] input = "HIGH" -> "high"
      [] input = "Medium" -> "medium"
      [] OTHER -> input

\* lower.includes(part) on the lower-case texts
includes(lower, part) ==
    CASE lower = "low" -> part = "low"
      [] lower = "high" -> part = "high"
      [] lower = "high or low" -> part \in {"high", "low"}
      [] OTHER -> FALSE

mapBudgetLevel(input) ==
    LET lower == toLowerCase(input)
    IN  IF includes(lower, "low") THEN "low"
        ELSE IF includes(lower, "high") THEN "high"
        ELSE "medium"

\* JSON.parse(JSON.stringify(answers)) throws when answers is undefined, and
\* reading a member of the parsed value throws when it is null
generateUniversityPaths(answers) ==
    IF answers.kind \in {"undefined", "null"}
    THEN JourneyOutcome("university_paths", "Path Generation Error",
                        Data("paths", EmptyObject, <<>>))
    ELSE LET profile ==
                 StudentProfile(IF Truthy(answers.target) THEN answers.target
                                ELSE Undefined,
                                mapBudgetLevel(IF Truthy(answers.budget)
                                               THEN answers.budget ELSE ""),
                                "failure", "medium")
         IN  JourneyOutcome("university_paths", "Recommended Universities",
                            Data("paths", EmptyObject, generatePaths(profile)))

\* Variant: the default branch generates university paths
generateOutcomeDefaultPaths(situation, answers, completion) ==
    CASE situation = "dont_know" -> generateExplorationMap(completion)
      [] situation = "study_abroad" -> generateUniversityPaths(answers)
      [] situation = "unsure_choice" -> validateDecision(completion)
      [] situation = "something_wrong" -> generateRecoveryPlan(completion)
      [] situation = "explore_safely" -> generateInfoBoard(completion)
      [] OTHER -> generateUniversityPaths(answers)

generateOutcome(situation, answers, completion) ==
    CASE situation = "dont_know" -> generateExplorationMap(completion)
      [] situation = "study_abroad" -> generateUniversityPaths(answers)
      [] situation = "unsure_choice" -> validateDecision(completion)
      [] situation = "something_wrong" -> generateRecoveryPlan(completion)
      [] situation = "explore_safely" -> generateInfoBoard(completion)
      [] OTHER -> generateExplorationMap(completion)

Generate(situation, answers, completion) ==
    /\ outcome' = <<[situation |-> situation, answers |-> answers,
                     completion |-> completion,
                     result |-> generateOutcome(situation, answers, completion)]>>
    /\ UNCHANGED <<UNIVERSITIES, request, eligibleUniversities,
                   scoredUniversities, selectedPaths, response, fit,
                   COUNTRIES, clock, previous, risk, client, analysis,
                   path,
                   SCHOLARSHIPS,
                   scholarships,
                   inflight,
                   step,
                   formData,
                   sessionStorage,
                   pathname>>

InitOutcome ==
    /\ UNIVERSITIES \in ReloadCatalogs
    /\ request = NoRequest
    /\ eligibleUniversities = <<>>
    /\ scoredUniversities = <<>>
    /\ selectedPaths = <<>>
    /\ response = NoResponse
    /\ fit = <<>>
    /\ COUNTRIES = SeedCountries
    /\ clock = StartTime
    /\ previous = [request |-> NoRequest, response |-> NoResponse]
    /\ risk = <<>>
    /\ client \in BOOLEAN
    /\ outcome = <<>>
    /\ analysis = <<>>
    /\ path = <<>>
    /\ SCHOLARSHIPS = SeedScholarships
    /\ scholarships = <<>>
    /\ inflight = [i \in Invocations |-> Idle]
    /\ step = 1
    /\ formData = NoAnswers
    /\ sessionStorage = [studentProfile |-> <<>>]
    /\ pathname = "/profile"

NextOutcome ==
    /\ outcome = <<>>
    /\ \E situation \in Situations, answers \in AnswerSets, completion \in Completions :
           Generate(situation, answers, completion)

SpecOutcome == InitOutcome /\ [][NextOutcome]_vars

(***************************************************************************)
(* The situation analyzer (lib/ai-reasoning/situation-analyzer.ts)         *)
(***************************************************************************)
flowMap ==
    [dont_know |-> "exploration", study_abroad |-> "execution",
     unsure_choice |-> "validation", something_wrong |-> "recovery",
     explore_safely |-> "browse"]

\* flowMap[situation], undefined for a situation the map does not name
flowTypeOf(situation) ==
    IF situation \in DOMAIN flowMap THEN flowMap[situation] ELSE Undefined

\* the ids of the questions of questionSets
questionSets ==
    [dont_know       |-> <<"interests", "constraints", "fears">>,
     study_abroad    |-> <<"target-country", "budget", "timeline">>,
     unsure_choice   |-> <<"choice", "doubts", "alternatives">>,
     something_wrong |-> <<"problem", "timeline", "tried">>,
     explore_safely  |-> <<"interest">>]

\* questionSets[situation], undefined for a situation the sets do not name
getFallbackQuestions(situation) ==
    IF situation \in DOMAIN questionSets
    THEN [i \in 1..Len(questionSets[situation]) |->
             [id |-> questionSets[situation][i], source |-> "static"]]
    ELSE Undefined

getFallbackAnalysis(situation, flowType) ==
    [situation |-> situation, flowType |-> flowType,
     questions |-> getFallbackQuestions(situation),
     aiReasoning |-> "fallback"]

\* a line of the text behind "QUESTIONS:": blank, a question, or a list item
LineKinds == {"blank", "question", "- question"}

MaxLines == 6

\* the answer of the model: the call throws, or the content is absent, or it
\* is a text with or without the part "QUESTIONS:" and the lines behind it
AIResponse(throws, present, marker, lines) ==
    [throws |-> throws, present |-> present, marker |-> marker, lines |-> lines]

LineLists == UNION {[1..n -> LineKinds] : n \in 0..MaxLines}

AIResponses ==
    {AIResponse(TRUE, FALSE, FALSE, <<>>), AIResponse(FALSE, FALSE, FALSE, <<>>),
     AIResponse(FALSE, TRUE, FALSE, <<>>)}
    \cup {AIResponse(FALSE, TRUE, TRUE, lines) : lines \in LineLists}

\* filter((line) => line.trim()): the lines that are not blank, in order
RECURSIVE filterLines(_, _)
filterLines(lines, i) ==
    IF i > Len(lines) THEN <<>>
    ELSE IF lines[i] # "blank"
         THEN <<lines[i]>> \o filterLines(lines, i + 1)
         ELSE filterLines(lines, i + 1)

\* slice(0, n)
slice(seq, n) == IF Len(seq) <= n THEN seq ELSE SubSeq(seq, 1, n)

\* Variant: every line is kept
questionLinesAll(aiResponse) ==
    IF aiResponse.present /\ aiResponse.marker
    THEN filterLines(aiResponse.lines, 1)
    ELSE <<>>

\* without content or without "QUESTIONS:" the text is "", whose only line is
\* blank
questionLines(aiResponse) ==
    IF aiResponse.present /\ aiResponse.marker
    THEN slice(filterLines(aiResponse.lines, 1), 5)
    ELSE <<>>

\* q.replace(/^[-*]\s*/, "").trim() takes the list mark off a line
parseAIResponse(situation, flowType, aiResponse) ==
    LET lines     == questionLines(aiResponse)
        questions == [i \in 1..Len(lines) |->
                         [id |-> "q - " \o ToString(i) \o " ", source |-> "ai"]]
    IN  [situation |-> situation, flowType |-> flowType,
         questions |-> IF Len(questions) > 0 THEN questions
                       ELSE getFallbackQuestions(situation),
         aiReasoning |-> "parsed"]

analyzeSituation(situation, aiResponse) ==
    LET flowType == flowTypeOf(situation)
    IN  IF ~client THEN getFallbackAnalysis(situation, flowType)
        ELSE IF aiResponse.throws THEN getFallbackAnalysis(situation, flowType)
        ELSE parseAIResponse(situation, flowType, aiResponse)

Analyze(situation, aiResponse) ==
    /\ analysis' = <<[situation |-> situation, aiResponse |-> aiResponse,
                      result |-> analyzeSituation(situation, aiResponse)]>>
    /\ UNCHANGED <<UNIVERSITIES, request, eligibleUniversities,
                   scoredUniversities, selectedPaths, response, fit,
                   COUNTRIES, clock, previous, risk, client, outcome,
                   path,
                   SCHOLARSHIPS,
                   scholarships,
                   inflight,
                   step,
                   formData,
                   sessionStorage,
                   pathname>>

InitAnalyze ==
    /\ UNIVERSITIES = <<>>
    /\ request = NoRequest
    /\ eligibleUniversities = <<>>
    /\ scoredUniversities = <<>>
    /\ selectedPaths = <<>>
    /\ response = NoResponse
    /\ fit = <<>>
    /\ COUNTRIES = SeedCountries
    /\ clock = StartTime
    /\ previous = [request |-> NoRequest, response |-> NoResponse]
    /\ risk = <<>>
    /\ client \in BOOLEAN
    /\ outcome = <<>>
    /\ analysis = <<>>
    /\ path = <<>>
    /\ SCHOLARSHIPS = SeedScholarships
    /\ scholarships = <<>>
    /\ inflight = [i \in Invocations |-> Idle]
    /\ step = 1
    /\ formData = NoAnswers
    /\ sessionStorage = [studentProfile |-> <<>>]
    /\ pathname = "/profile"

NextAnalyze ==
    /\ analysis = <<>>
    /\ \E situation \in Situations, aiResponse \in AIResponses :
           Analyze(situation, aiResponse)

SpecAnalyze == InitAnalyze /\ [][NextAnalyze]_vars

(***************************************************************************)
(* buildPath on its own: every profile against universities whose fields   *)
(* read by the risks and the exclusions range over their type or over      *)
(* both sides of the limit they are compared with.                         *)
(***************************************************************************)
AcceptanceRates == {9, 10}

PathUniversities ==
    {University("uni", country, "mixed", workload, language.primary,
                language.alternatives, tier, visa, 5, rate) :
        country \in {"United States", "Singapore"}, workload \in Scale,
        language \in LanguageRequirements, tier \in TuitionTier,
        visa \in VisaDifficulty, rate \in AcceptanceRates}

Build(profile, uni) ==
    /\ path' = <<[profile |-> profile, university |-> uni,
                  path |-> buildPath(profile, uni, calculateFitScore(profile, uni))]>>
    /\ UNCHANGED <<UNIVERSITIES, request, eligibleUniversities,
                   scoredUniversities, selectedPaths, response, fit,
                   COUNTRIES, clock, previous, risk, client, outcome,
                   analysis,
                   SCHOLARSHIPS,
                   scholarships,
                   inflight,
                   step,
                   formData,
                   sessionStorage,
                   pathname>>

InitPath ==
    /\ UNIVERSITIES = <<>>
    /\ request = NoRequest
    /\ eligibleUniversities = <<>>
    /\ scoredUniversities = <<>>
    /\ selectedPaths = <<>>
    /\ response = NoResponse
    /\ fit = <<>>
    /\ COUNTRIES = SeedCountries
    /\ clock = StartTime
    /\ previous = [request |-> NoRequest, response |-> NoResponse]
    /\ risk = <<>>
    /\ client = FALSE
    /\ outcome = <<>>
    /\ analysis = <<>>
    /\ path = <<>>
    /\ SCHOLARSHIPS = SeedScholarships
    /\ scholarships = <<>>
    /\ inflight = [i \in Invocations |-> Idle]
    /\ step = 1
    /\ formData = NoAnswers
    /\ sessionStorage = [studentProfile |-> <<>>]
    /\ pathname = "/profile"

NextPath ==
    /\ path = <<>>
    /\ \E profile \in ScoringProfiles, uni \in PathUniversities : Build(profile, uni)

SpecPath == InitPath /\ [][NextPath]_vars

(***************************************************************************)
(* findMatchingScholarships on its own: applicants of two stages and two   *)
(* countries against a German university, under every scholarship catalog. *)
(***************************************************************************)
Applicants ==
    {Applicant(StudentProfile(Undefined, "medium", "failure", "medium"), stage, country) :
        stage \in {"bachelors", "masters"}, country \in {"India", "Kenya"}}

ScholarshipUniversity ==
    University("uni", "Germany", "mixed", 5, "English", {}, "free", "easy", 5, 50)

Match(profile, uni) ==
    /\ scholarships' = <<[profile |-> profile, university |-> uni,
                          matched |-> findMatchingScholarships(profile, uni)]>>
    /\ UNCHANGED <<UNIVERSITIES, request, eligibleUniversities,
                   scoredUniversities, selectedPaths, response, fit,
                   COUNTRIES, clock, previous, risk, client, outcome,
                   analysis, path, SCHOLARSHIPS,
                   inflight,
                   step,
                   formData,
                   sessionStorage,
                   pathname>>

InitScholarship ==
    /\ UNIVERSITIES = <<>>
    /\ request = NoRequest
    /\ eligibleUniversities = <<>>
    /\ scoredUniversities = <<>>
    /\ selectedPaths = <<>>
    /\ response = NoResponse
    /\ fit = <<>>
    /\ COUNTRIES = SeedCountries
    /\ clock = StartTime
    /\ previous = [request |-> NoRequest, response |-> NoResponse]
    /\ risk = <<>>
    /\ client = FALSE
    /\ outcome = <<>>
    /\ analysis = <<>>
    /\ path = <<>>
    /\ SCHOLARSHIPS \in ScholarshipCatalogs
    /\ scholarships = <<>>
    /\ inflight = [i \in Invocations |-> Idle]
    /\ step = 1
    /\ formData = NoAnswers
    /\ sessionStorage = [studentProfile |-> <<>>]
    /\ pathname = "/profile"

NextScholarship ==
    /\ scholarships = <<>>
    /\ \E profile \in Applicants : Match(profile, ScholarshipUniversity)

SpecScholarship == InitScholarship /\ [][NextScholarship]_vars

(***************************************************************************)
(* Several requests at once.  The route awaits request.json() and then     *)
(* runs generatePaths, which is synchronous, to its end: the handling of   *)
(* a request is two steps, and the steps of different requests interleave. *)
(***************************************************************************)
ConcurrentProfiles ==
    {StudentProfile(t, "low", f, "medium") :
        t \in {Undefined, "Germany"}, f \in {"visa", "money"}}

ConcurrentBodies == {[body |-> "profile", profile |-> p] : p \in ConcurrentProfiles}

\* the request arrives and the route waits for its body
Receive(i, req) ==
    /\ inflight[i].stage = "idle"
    /\ inflight' = [inflight EXCEPT ![i] = [stage |-> "parsing", request |-> req,
                                            response |-> NoResponse]]
    /\ UNCHANGED <<UNIVERSITIES, request, eligibleUniversities,
                   scoredUniversities, selectedPaths, response, fit,
                   COUNTRIES, clock, previous, risk, client, outcome,
                   analysis, path, SCHOLARSHIPS, scholarships,
                   step,
                   formData,
                   sessionStorage,
                   pathname>>

\* Variant: the catalog itself is sorted by fit, not the list made from it
RespondSortingCatalog(i) ==
    /\ inflight[i].stage = "parsing"
    /\ inflight' = [inflight EXCEPT ![i] =
                        [stage |-> "done", request |-> inflight[i].request,
                         response |-> [status |-> 200,
                                       paths |-> generatePaths(inflight[i].request.profile),
                                       error |-> ""]]]
    /\ UNIVERSITIES' =
           LET sorted == sortByFit(scoreAll(inflight[i].request.profile, UNIVERSITIES))
           IN  [k \in 1..Len(sorted) |-> sorted[k].university]
    /\ UNCHANGED <<request, eligibleUniversities,
                   scoredUniversities, selectedPaths, response, fit,
                   COUNTRIES, clock, previous, risk, client, outcome,
                   analysis, path, SCHOLARSHIPS, scholarships,
                   step,
                   formData,
                   sessionStorage,
                   pathname>>

\* the body is there: generatePaths runs and the route answers.  filter and
\* map make new arrays, sort orders the array map made, find and slice only
\* read: no catalog is written.
Respond(i) ==
    /\ inflight[i].stage = "parsing"
    /\ inflight' = [inflight EXCEPT ![i] =
                        [stage |-> "done", request |-> inflight[i].request,
                         response |-> [status |-> 200,
                                       paths |-> generatePaths(inflight[i].request.profile),
                                       error |-> ""]]]
    /\ UNCHANGED <<UNIVERSITIES, request, eligibleUniversities,
                   scoredUniversities, selectedPaths, response, fit,
                   COUNTRIES, clock, previous, risk, client, outcome,
                   analysis, path, SCHOLARSHIPS, scholarships,
                   step,
                   formData,
                   sessionStorage,
                   pathname>>

InitConcurrent ==
    /\ UNIVERSITIES \in ReloadCatalogs
    /\ request = NoRequest
    /\ eligibleUniversities = <<>>
    /\ scoredUniversities = <<>>
    /\ selectedPaths = <<>>
    /\ response = NoResponse
    /\ fit = <<>>
    /\ COUNTRIES = SeedCountries
    /\ clock = StartTime
    /\ previous = [request |-> NoRequest, response |-> NoResponse]
    /\ risk = <<>>
    /\ client = FALSE
    /\ outcome = <<>>
    /\ analysis = <<>>
    /\ path = <<>>
    /\ SCHOLARSHIPS = SeedScholarships
    /\ scholarships = <<>>
    /\ inflight = [i \in Invocations |-> Idle]
    /\ step = 1
    /\ formData = NoAnswers
    /\ sessionStorage = [studentProfile |-> <<>>]
    /\ pathname = "/profile"

NextConcurrent ==
    \/ \E i \in Invocations, req \in ConcurrentBodies : Receive(i, req)
    \/ \E i \in Invocations : Respond(i)

SpecConcurrent == InitConcurrent /\ [][NextConcurrent]_vars

(***************************************************************************)
(* The profile wizard (src/app/profile/page.tsx): six steps, one answer    *)
(* each, then the profile is stored and the paths page is opened.          *)
(***************************************************************************)
\* countries of the two searchable lists the student picks from
WizardCountries == {"India", "Germany"}

\* the stages offered at step 2, two of the six
WizardStages == {"bachelors", "masters"}

\* the range of the confidence slider
Slider == 1..10

\* !x for an answer that is null until given
Falsy(x) == x = Null \/ x = ""

\* useState("dont_know"); the effect finds no saved situation
situation == "dont_know"

\* the number of the slider as a confidence level
toConfidenceLevel(n) ==
    IF n <= 3 THEN "low" ELSE IF n <= 7 THEN "medium" ELSE "high"

\* the StudentProfile handleSubmit builds; the id is made of the same clock
\* reading as createdAt
newProfile(form, now) ==
    [situation       |-> situation,
     currentCountry  |-> form.currentCountry,
     targetCountry   |-> form.targetCountry,
     educationStage  |-> form.educationStage,
     budgetLevel     |-> form.budgetLevel,
     mainFear        |-> form.mainFear,
     confidenceLevel |-> toConfidenceLevel(form.confidenceLevel),
     createdAt       |-> now]

\* Variant: the profile is stored whatever is missing
handleSubmitUnchecked(form, storage, page) ==
    [sessionStorage |-> [storage EXCEPT !.studentProfile = <<newProfile(form, clock)>>],
     pathname       |-> "/paths"]

\* handleSubmit: the session storage and the page after it has run
handleSubmit(form, storage, page) ==
    IF Falsy(form.educationStage) \/ Falsy(form.budgetLevel) \/ Falsy(form.mainFear)
    THEN [sessionStorage |-> storage, pathname |-> page]
    ELSE [sessionStorage |-> [storage EXCEPT !.studentProfile = <<newProfile(form, clock)>>],
          pathname       |-> "/paths"]

canProceed ==
    CASE step = 1 -> formData.currentCountry # ""
      [] step = 2 -> ~Falsy(formData.educationStage)
      [] step = 3 -> formData.targetCountry # ""
      [] step = 4 -> ~Falsy(formData.budgetLevel)
      [] step = 5 -> ~Falsy(formData.mainFear)
      [] step = 6 -> TRUE
      [] OTHER    -> FALSE

\* the profile page is the one shown
Mounted == pathname = "/profile"

\* an answer is given at the step that shows its question
setFormData(atStep, field, value) ==
    /\ Mounted
    /\ step = atStep
    /\ formData' = [formData EXCEPT ![field] = value]
    /\ UNCHANGED <<step, sessionStorage, pathname>>
    /\ UNCHANGED <<UNIVERSITIES, request, eligibleUniversities,
                   scoredUniversities, selectedPaths, response, fit,
                   COUNTRIES, clock, previous, risk, client, outcome,
                   analysis, path, SCHOLARSHIPS, scholarships, inflight>>

\* the Next button, disabled while canProceed() is false
handleNext ==
    /\ Mounted
    /\ canProceed
    /\ IF step < 6
       THEN /\ step' = step + 1
            /\ UNCHANGED <<sessionStorage, pathname>>
       ELSE LET after == handleSubmit(formData, sessionStorage, pathname)
            IN  /\ sessionStorage' = after.sessionStorage
                /\ pathname' = after.pathname
                /\ UNCHANGED step
    /\ UNCHANGED formData
    /\ UNCHANGED <<UNIVERSITIES, request, eligibleUniversities,
                   scoredUniversities, selectedPaths, response, fit,
                   COUNTRIES, clock, previous, risk, client, outcome,
                   analysis, path, SCHOLARSHIPS, scholarships, inflight>>

\* the Back button, disabled at step 1
handleBack ==
    /\ Mounted
    /\ step # 1
    /\ step' = (IF step > 1 THEN step - 1 ELSE step)
    /\ UNCHANGED <<formData, sessionStorage, pathname>>
    /\ UNCHANGED <<UNIVERSITIES, request, eligibleUniversities,
                   scoredUniversities, selectedPaths, response, fit,
                   COUNTRIES, clock, previous, risk, client, outcome,
                   analysis, path, SCHOLARSHIPS, scholarships, inflight>>

InitWizard ==
    /\ UNIVERSITIES = <<>>
    /\ request = NoRequest
    /\ eligibleUniversities = <<>>
    /\ scoredUniversities = <<>>
    /\ selectedPaths = <<>>
    /\ response = NoResponse
    /\ fit = <<>>
    /\ COUNTRIES = SeedCountries
    /\ clock = StartTime
    /\ previous = [request |-> NoRequest, response |-> NoResponse]
    /\ risk = <<>>
    /\ client = FALSE
    /\ outcome = <<>>
    /\ analysis = <<>>
    /\ path = <<>>
    /\ SCHOLARSHIPS = SeedScholarships
    /\ scholarships = <<>>
    /\ inflight = [i \in Invocations |-> Idle]
    /\ step = 1
    /\ formData = NoAnswers
    /\ sessionStorage = [studentProfile |-> <<>>]
    /\ pathname = "/profile"

NextWizard ==
    \/ \E country \in WizardCountries : setFormData(1, "currentCountry", country)
    \/ \E stage \in WizardStages : setFormData(2, "educationStage", stage)
    \/ \E country \in WizardCountries : setFormData(3, "targetCountry", country)
    \/ \E budget \in BudgetLevel : setFormData(4, "budgetLevel", budget)
    \/ \E fear \in FearType : setFormData(5, "mainFear", fear)
    \/ \E n \in Slider : setFormData(6, "confidenceLevel", n)
    \/ handleNext
    \/ handleBack

SpecWizard == InitWizard /\ [][NextWizard]_vars

(***************************************************************************)
(* Properties.  The reference notions below are written from the contract  *)
(* of each component, not from the operators above.                        *)
(***************************************************************************)
Served == response.status = 200
Paths == response.paths
Returned == {Paths[k].details : k \in DOMAIN Paths}
Catalog == Range(UNIVERSITIES)
Min(a, b) == IF a <= b THEN a ELSE b

\* the hard constraints of the eligibility contract
TargetOk(p, u) == p.targetCountry # Undefined => u.country = p.targetCountry
BudgetOk(p, u) == p.budgetLevel = "low" => u.tuition.tier # "high"
VisaOk(p, u) == p.mainFear = "visa" => u.visaDifficulty # "hard"
ConfidenceOk(p, u) == p.confidenceLevel = "low" => u.workloadIntensity < 9
Eligible(p) ==
    {u \in Catalog : TargetOk(p, u) /\ BudgetOk(p, u) /\ VisaOk(p, u)
                     /\ ConfidenceOk(p, u)}
EligibleCount == Cardinality(Eligible(request.profile))

\* C1: with budgetLevel "low", no returned path has a university of tuition
\* tier "high".
C1_LowBudgetNoHighTuition ==
    (Served /\ request.profile.budgetLevel = "low")
        => \A u \in Returned : u.tuition.tier # "high"

\* a low-budget request is served paths from a catalog that holds a
\* high-tuition university which only the budget constraint excludes
C1_Witness ==
    /\ Served /\ request.profile.budgetLevel = "low" /\ Paths # <<>>
    /\ \E u \in Catalog :
          /\ u.tuition.tier = "high"
          /\ TargetOk(request.profile, u) /\ VisaOk(request.profile, u)
          /\ ConfidenceOk(request.profile, u)

\* C2: with mainFear "visa", no returned path has a university of visa
\* difficulty "hard".
C2_VisaFearNoHardVisa ==
    (Served /\ request.profile.mainFear = "visa")
        => \A u \in Returned : u.visaDifficulty # "hard"

C2_Witness ==
    /\ Served /\ request.profile.mainFear = "visa" /\ Paths # <<>>
    /\ \E u \in Catalog :
          /\ u.visaDifficulty = "hard"
          /\ TargetOk(request.profile, u) /\ BudgetOk(request.profile, u)
          /\ ConfidenceOk(request.profile, u)

\* C3: with a target country, every returned path has a university of exactly
\* that country, also when fewer than 3 such universities exist.
C3_TargetCountryOnly ==
    (Served /\ request.profile.targetCountry # Undefined)
        => \A u \in Returned : u.country = request.profile.targetCountry

\* fewer than 3 paths are returned although the catalog holds universities
\* of other countries that pass every other constraint
C3_Witness ==
    /\ Served /\ request.profile.targetCountry # Undefined
    /\ Len(Paths) \in {1, 2}
    /\ Cardinality({u \in Catalog :
            /\ u.country # request.profile.targetCountry
            /\ BudgetOk(request.profile, u) /\ VisaOk(request.profile, u)
            /\ ConfidenceOk(request.profile, u)}) >= 2

\* C4: with confidenceLevel "low", no returned path has workload 9 or 10, and
\* a university of workload 8 or less that meets the other constraints is
\* kept by the filter.
C4_LowConfidenceWorkload ==
    (Served /\ request.profile.confidenceLevel = "low")
        => /\ \A u \in Returned : u.workloadIntensity \notin {9, 10}
           /\ \A u \in Catalog :
                 (/\ u.workloadIntensity <= 8
                  /\ TargetOk(request.profile, u) /\ BudgetOk(request.profile, u)
                  /\ VisaOk(request.profile, u))
                     => u \in Range(eligibleUniversities)

\* a workload-8 university is returned while a workload-9 one, which meets
\* the other constraints, is not
C4_Witness ==
    /\ Served /\ request.profile.confidenceLevel = "low"
    /\ \E u \in Returned : u.workloadIntensity = 8
    /\ \E u \in Catalog :
          /\ u.workloadIntensity = 9
          /\ TargetOk(request.profile, u) /\ BudgetOk(request.profile, u)
          /\ VisaOk(request.profile, u)

Weights == [teaching |-> 20, workload |-> 15, language |-> 15, cost |-> 25,
            visa |-> 15, support |-> 10]
Dimensions == {"teaching", "workload", "language", "cost", "visa", "support"}

RECURSIVE SumOver(_, _)
SumOver(f, S) ==
    IF S = {} THEN 0
    ELSE LET d == CHOOSE x \in S : TRUE IN f[d] + SumOver(f, S \ {d})

WeightedHundredths(breakdown) ==
    SumOver([d \in Dimensions |-> Weights[d] * breakdown[d]], Dimensions)

\* C8: calculateFitScore returns six breakdown values in [0,100] and an
\* integer overall in [0,100] that is the weighted sum (weights 0.20, 0.15,
\* 0.15, 0.25, 0.15, 0.10, summing to 1.0) rounded to the nearest integer.
C8_FitScoreRange ==
    fit # <<>> =>
        LET score == fit[1].fitScore
            sum   == WeightedHundredths(score.breakdown)
        IN  /\ DOMAIN score.breakdown = Dimensions
            /\ \A d \in Dimensions : score.breakdown[d] \in 0..100
            /\ score.overall \in 0..100
            /\ SumOver(Weights, Dimensions) = 100
            /\ 100 * score.overall - 50 <= sum
            /\ sum <= 100 * score.overall + 50

\* a score whose weighted sum is not an integer and is rounded up
C8_Witness ==
    /\ fit # <<>>
    /\ WeightedHundredths(fit[1].fitScore.breakdown) % 100 = 75
    /\ 100 * fit[1].fitScore.overall > WeightedHundredths(fit[1].fitScore.breakdown)

\* C9: when at least 3 universities are eligible and they span at least 2
\* countries, the 3 returned paths are not all from the same country.
C9_NotAllSameCountry ==
    (/\ Served /\ EligibleCount >= 3
     /\ Cardinality({u.country : u \in Eligible(request.profile)}) >= 2)
        => Cardinality({u.country : u \in Returned}) >= 2

\* the three best scored candidates share a country and the third path is
\* of another country
C9_Witness ==
    /\ Served /\ Len(scoredUniversities) >= 4 /\ Len(Paths) = 3
    /\ scoredUniversities[1].university.country = scoredUniversities[2].university.country
    /\ scoredUniversities[2].university.country = scoredUniversities[3].university.country
    /\ Paths[3].details.country # Paths[1].details.country

\* positions of scored from the third on whose country differs from the
\* countries of the first two entries
NewCountryPositions(scored) ==
    {j \in 3..Len(scored) :
        scored[j].university.country \notin
            {scored[1].university.country, scored[2].university.country}}

SetMin(S) == CHOOSE x \in S : \A y \in S : x <= y

\* C10: the first two selections are the first and second entries of the
\* sorted candidate list whatever their countries; the third is the highest
\* ranked remaining candidate of a country not yet selected if there is one,
\* and the highest ranked remaining candidate otherwise.
C10_SelectionOrder ==
    Served =>
        LET scored == scoredUniversities
        IN  /\ Len(selectedPaths) = Len(Paths)
            /\ \A k \in DOMAIN Paths :
                  /\ Paths[k].details = selectedPaths[k].university
                  /\ Paths[k].fitScore = selectedPaths[k].fitScore
            /\ Len(scored) >= 1 => selectedPaths[1] = scored[1]
            /\ Len(scored) >= 2 => selectedPaths[2] = scored[2]
            /\ Len(scored) >= 3 =>
                  selectedPaths[3] =
                      IF NewCountryPositions(scored) # {}
                      THEN scored[SetMin(NewCountryPositions(scored))]
                      ELSE scored[3]

\* the first two selections tie in score and share a country, and the third
\* selection is not the third entry of the sorted list
C10_Witness ==
    /\ Served /\ Len(scoredUniversities) >= 4 /\ Len(selectedPaths) = 3
    /\ scoredUniversities[1].fitScore.overall = scoredUniversities[2].fitScore.overall
    /\ scoredUniversities[1].university.country = scoredUniversities[2].university.country
    /\ selectedPaths[3] # scoredUniversities[3]

\* the cells of the cost table: its (budget level, tuition tier) keys
CostCells == {<<b, t>> : b \in DOMAIN budgetMap, t \in TuitionTier}
DefinedCostCells == {c \in CostCells : c[2] \in DOMAIN budgetMap[c[1]]}

\* C17 (as stated): the cost fit is a lookup table keyed by (budget level,
\* tuition tier) with exactly 9 cells (3 x 3), low budget with high tuition
\* scores 10, the high-budget row is at least 85, and the table is defined
\* for every tuition tier a university can carry.
C17_NineCells ==
    fit # <<>> =>
        LET b    == fit[1].profile.budgetLevel
            t    == fit[1].university.tuition.tier
            cost == fit[1].fitScore.breakdown.cost
        IN  /\ Cardinality(DefinedCostCells) = 9
            /\ DefinedCostCells = CostCells
            /\ (b = "low" /\ t = "high") => cost = 10
            /\ b = "high" => cost >= 85

\* C17 (amended): the table has exactly 12 cells (3 budget levels x 4 tuition
\* tiers: free, low, medium, high); the rest as stated.
C17_TwelveCells ==
    fit # <<>> =>
        LET b    == fit[1].profile.budgetLevel
            t    == fit[1].university.tuition.tier
            cost == fit[1].fitScore.breakdown.cost
        IN  /\ Cardinality(DefinedCostCells) = 12
            /\ DefinedCostCells = CostCells
            /\ cost \in 0..100
            /\ (b = "low" /\ t = "high") => cost = 10
            /\ b = "high" => cost >= 85

\* the high-budget cell with the lowest score is evaluated
C17_Witness ==
    /\ fit # <<>>
    /\ fit[1].profile.budgetLevel = "high"
    /\ fit[1].university.tuition.tier = "high"
    /\ fit[1].fitScore.breakdown.cost = 85

\* the tolerated workload of each confidence level
ToleratedWorkload == [low |-> 5, medium |-> 7, high |-> 10]

\* C18: the workload fit is 100 - 5*(max - w) when w <= max and
\* max(0, 100 - 15*(w - max)) when w > max, with max = 5, 7, 10 for
\* confidence low, medium, high; it is 100 exactly when w = max and a point
\* above max costs three times a point below it.
C18_WorkloadFit ==
    fit # <<>> =>
        LET w == fit[1].university.workloadIntensity
            m == ToleratedWorkload[fit[1].profile.confidenceLevel]
            f == fit[1].fitScore.breakdown.workload
        IN  /\ w <= m => f = 100 - 5 * (m - w)
            /\ w > m => f = Max(0, 100 - 15 * (w - m))
            /\ f = 100 <=> w = m
            /\ (w > m /\ f > 0) => 100 - f = 3 * (5 * (w - m))

\* a workload above the tolerated one
C18_Witness ==
    /\ fit # <<>>
    /\ fit[1].profile.confidenceLevel = "low"
    /\ fit[1].university.workloadIntensity = 10
    /\ fit[1].fitScore.breakdown.workload = 25

\* C13: at most 3 paths are returned, in non-increasing order of overall fit
\* score; a backfilled path never outranks a path placed before it.
C13_NonIncreasingScores ==
    Served =>
        /\ Len(Paths) <= 3
        /\ \A k \in DOMAIN Paths : \A l \in DOMAIN Paths :
              k < l => Paths[k].fitScore.overall >= Paths[l].fitScore.overall

\* three paths of one country (the third is backfilled) with a strictly lower
\* score at the end, from a catalog that does not start with the best one
C13_Witness ==
    /\ Served /\ Len(Paths) = 3
    /\ Cardinality({u.country : u \in Eligible(request.profile)}) = 1
    /\ Paths[1].fitScore.overall > Paths[3].fitScore.overall
    /\ eligibleUniversities[1] # Paths[1].details

\* position of a university in the catalog
CatalogPosition(u) == CHOOSE i \in DOMAIN UNIVERSITIES : UNIVERSITIES[i] = u
ScoredPosition(u) ==
    CHOOSE i \in DOMAIN scoredUniversities : scoredUniversities[i].university = u
PathPositions(u) == {k \in DOMAIN Paths : Paths[k].details = u}

\* pairs of eligible universities of equal overall score, the first one
\* earlier in the catalog
TiedPairs ==
    {pair \in Range(scoredUniversities) \X Range(scoredUniversities) :
        /\ pair[1].fitScore.overall = pair[2].fitScore.overall
        /\ CatalogPosition(pair[1].university) < CatalogPosition(pair[2].university)}

\* C16 (as stated): of two eligible universities of equal overall score the
\* one earlier in the catalog is earlier in the sorted list, and is selected
\* first, or alone if only one of them is selected.
C16_EarlierSelectedFirstOrAlone ==
    Served =>
        \A pair \in TiedPairs :
            /\ ScoredPosition(pair[1].university) < ScoredPosition(pair[2].university)
            /\ PathPositions(pair[2].university) # {}
                  => /\ PathPositions(pair[1].university) # {}
                     /\ \A k \in PathPositions(pair[1].university) :
                           \A l \in PathPositions(pair[2].university) : k < l

\* C16 (amended): the one earlier in the catalog is earlier in the sorted
\* list, and is selected first when both are selected; the later one is
\* selected without the earlier one only when the earlier one shares its
\* country with a higher-ranked selected university.
C16_StableOrder ==
    Served =>
        \A pair \in TiedPairs :
            /\ ScoredPosition(pair[1].university) < ScoredPosition(pair[2].university)
            /\ \A k \in PathPositions(pair[1].university) :
                  \A l \in PathPositions(pair[2].university) : k < l
            /\ (PathPositions(pair[2].university) # {}
                /\ PathPositions(pair[1].university) = {})
                  => \E k \in DOMAIN Paths :
                        /\ Paths[k].details.country = pair[1].university.country
                        /\ k < ScoredPosition(pair[1].university)
                        /\ k \in {1, 2}

\* two tied universities are both selected, in catalog order, although the
\* catalog lists a lower-scored university before them
C16_Witness ==
    /\ Served
    /\ \E pair \in TiedPairs :
          /\ PathPositions(pair[1].university) # {}
          /\ PathPositions(pair[2].university) # {}
          /\ CatalogPosition(pair[1].university) > 1
          /\ ScoredPosition(pair[1].university) = 1

(***************************************************************************)
(* Financial risk                                                          *)
(***************************************************************************)
Assessed == risk # <<>>

\* the budget and tuition tier of the pair last assessed do not go together
Mismatch ==
    \/ risk[1].profile.budgetLevel = "low"
       /\ risk[1].university.tuition.tier = "medium"
    \/ risk[1].profile.budgetLevel = "medium"
       /\ risk[1].university.tuition.tier = "high"

\* catalog positions of the records named like the country of the university
CountryRecordPositions ==
    {i \in 1..Len(COUNTRIES) : COUNTRIES[i].name = risk[1].university.country}

\* the country record of the university, the first of its name, is expensive
CountryIsExpensive ==
    \E i \in CountryRecordPositions :
        /\ COUNTRIES[i].costOfLiving.tier = "high"
        /\ \A j \in CountryRecordPositions : i <= j

\* C19: the financial risk is "high" exactly when the budget and the tuition
\* tier mismatch (low/medium or medium/high) or the country record of the
\* university has a high cost of living, and "low" otherwise, never "medium";
\* its likelihood is 70 exactly when budget and tuition mismatch, else 30.
C19_FinancialRisk ==
    Assessed =>
        /\ risk[1].financial.severity \in {"low", "high"}
        /\ risk[1].financial.severity = "high" <=> (Mismatch \/ CountryIsExpensive)
        /\ risk[1].financial.likelihood \in {30, 70}
        /\ risk[1].financial.likelihood = 70 <=> Mismatch

\* an expensive country alone: severity high at likelihood 30
C19_Witness ==
    /\ Assessed
    /\ ~Mismatch
    /\ CountryIsExpensive
    /\ risk[1].financial.severity = "high"
    /\ risk[1].financial.likelihood = 30

\* C20: when no record of the country catalog is named like the country of
\* the university, the assessment still yields a result, and its severity
\* and likelihood follow from the budget and tuition mismatch alone.
C20_LookupMiss ==
    (Assessed /\ CountryRecordPositions = {}) =>
        /\ risk[1].financial.severity = (IF Mismatch THEN "high" ELSE "low")
        /\ risk[1].financial.likelihood = (IF Mismatch THEN 70 ELSE 30)

\* the country is missing from a catalog that holds expensive countries
C20_Witness ==
    /\ Assessed
    /\ CountryRecordPositions = {}
    /\ \E i \in 1..Len(COUNTRIES) : COUNTRIES[i].costOfLiving.tier = "high"
    /\ ~Mismatch
    /\ risk[1].financial.severity = "low"
    /\ risk[1].financial.likelihood = 30

(***************************************************************************)
(* Repeated runs                                                           *)
(***************************************************************************)
\* the last two requests carried the same profile and were both served
SameProfileTwice ==
    /\ request.body = "profile"
    /\ previous.request = request
    /\ Served
    /\ previous.response.status = 200

\* C11: two runs of generatePaths on the same profile and the same catalog
\* give the same output in every field, the timeline dates included,
\* whatever the time of each run.
C11_SameOutputWhateverTheTime ==
    SameProfileTwice => response.paths = previous.response.paths

(***************************************************************************)
(* Profiles that lack a required field                                     *)
(***************************************************************************)
\* the profile of the request lacks its budget level, main fear or confidence
LacksRequiredField ==
    /\ request.body = "profile"
    /\ \/ request.profile.budgetLevel \notin BudgetLevel
       \/ request.profile.mainFear \notin FearType
       \/ request.profile.confidenceLevel \notin ConfidenceLevel

\* C12: a profile that lacks a required enum field is rejected before the
\* eligibility filter runs and the caller is told so: the answer is an error,
\* it carries no paths, nothing was filtered and nothing was scored.
C12_IncompleteProfileRejected ==
    LacksRequiredField =>
        /\ response.status >= 400
        /\ response.paths = <<>>
        /\ eligibleUniversities = <<>>
        /\ scoredUniversities = <<>>

(***************************************************************************)
(* Outcomes                                                                *)
(***************************************************************************)
Generated == outcome # <<>>

\* the outcome type the claim gives for each situation
OutcomeType ==
    [dont_know |-> "exploration_map", study_abroad |-> "university_paths",
     unsure_choice |-> "decision_validation", something_wrong |-> "recovery_plan",
     explore_safely |-> "info_board"]

\* C14: generateOutcome returns an outcome of type "university_paths" if and
\* only if the situation is "study_abroad", and for the other four situations
\* the type is the one fixed for the situation, whether the AI client is
\* missing, the AI call fails, or the AI answers.
C14_TypeBySituation ==
    Generated =>
        /\ outcome[1].result.type = "university_paths"
              <=> outcome[1].situation = "study_abroad"
        /\ outcome[1].situation \in SituationType
              => outcome[1].result.type = OutcomeType[outcome[1].situation]

\* the AI answers the text null for "dont_know": reading its options fails
\* and the stock exploration map is returned
C14_Witness ==
    /\ Generated
    /\ client
    /\ outcome[1].situation = "dont_know"
    /\ ~outcome[1].completion.throws
    /\ outcome[1].completion.content.present
    /\ outcome[1].completion.content.valid
    /\ outcome[1].completion.content.value.json = "null"
    /\ outcome[1].result.type = "exploration_map"
    /\ outcome[1].result.data.kind = "mock"

(***************************************************************************)
(* Analyses                                                                *)
(***************************************************************************)
Analyzed == analysis # <<>>

\* the flow type the claim gives for each situation
FlowType ==
    [dont_know |-> "exploration", study_abroad |-> "execution",
     unsure_choice |-> "validation", something_wrong |-> "recovery",
     explore_safely |-> "browse"]

\* C15: analyzeSituation returns an analysis for each of the five situations
\* whatever the AI does: without a client or when the AI call throws it is
\* the static fallback analysis of the situation, and in every case the
\* flowType is the one fixed for the situation and there are between 1 and
\* 5 questions.
C15_AnalysisAlwaysReturned ==
    (Analyzed /\ analysis[1].situation \in SituationType) =>
        /\ analysis[1].result.situation = analysis[1].situation
        /\ analysis[1].result.flowType = FlowType[analysis[1].situation]
        /\ Len(analysis[1].result.questions) \in 1..5
        /\ (~client \/ analysis[1].aiResponse.throws) =>
              /\ analysis[1].result.aiReasoning = "fallback"
              /\ \A i \in 1..Len(analysis[1].result.questions) :
                    analysis[1].result.questions[i].source = "static"

\* the AI lists more than five questions: the first five are kept
C15_Witness ==
    /\ Analyzed
    /\ client
    /\ analysis[1].situation = "explore_safely"
    /\ Len(filterLines(analysis[1].aiResponse.lines, 1)) > 5
    /\ Len(analysis[1].result.questions) = 5
    /\ analysis[1].result.questions[5].source = "ai"
    /\ analysis[1].result.flowType = "browse"

(***************************************************************************)
(* Paths assembled                                                         *)
(***************************************************************************)
Built == path # <<>>

\* the workload above which the claim calls the academic risk high
AcademicThreshold == [low |-> 3, medium |-> 7, high |-> 10]

\* C21: the academic risk has severity "high" and likelihood 60 exactly when
\* the workload of the university is strictly greater than the threshold of
\* the confidence of the profile (low 3, medium 7, high 10), and severity
\* "low" with likelihood 20 otherwise; for a high-confidence profile it is
\* always low.
C21_AcademicRisk ==
    Built =>
        LET academic == path[1].path.risks.academic
            above    == path[1].university.workloadIntensity
                          > AcademicThreshold[path[1].profile.confidenceLevel]
        IN  /\ above => academic.severity = "high" /\ academic.likelihood = 60
            /\ ~above => academic.severity = "low" /\ academic.likelihood = 20
            /\ path[1].profile.confidenceLevel = "high" => academic.severity = "low"

\* a low-confidence profile at workload 4, one above its threshold
C21_Witness ==
    /\ Built
    /\ path[1].profile.confidenceLevel = "low"
    /\ path[1].university.workloadIntensity = 4
    /\ path[1].path.risks.academic.severity = "high"
    /\ path[1].path.risks.academic.likelihood = 60

(***************************************************************************)
(* Scholarships                                                            *)
(***************************************************************************)
Matched == scholarships # <<>>

\* catalog positions of the scholarships the applicant qualifies for
QualifyingPositions ==
    {i \in 1..Len(SCHOLARSHIPS) :
        /\ SCHOLARSHIPS[i].country = scholarships[1].university.country
        /\ scholarships[1].profile.educationStage
              \in SCHOLARSHIPS[i].eligibility.educationStage
        /\ \/ SCHOLARSHIPS[i].eligibility.countries = {}
           \/ scholarships[1].profile.currentCountry
                 \in SCHOLARSHIPS[i].eligibility.countries
           \/ "All" \in SCHOLARSHIPS[i].eligibility.countries}

\* the k-th smallest element of a set of positions
RECURSIVE KthPosition(_, _)
KthPosition(positions, k) ==
    LET first == CHOOSE i \in positions : \A j \in positions : i <= j
    IN  IF k = 1 THEN first ELSE KthPosition(positions \ {first}, k - 1)

\* C22: the scholarships attached are the first 3, or all if fewer, in
\* catalog order, of the scholarships whose country is the country of the
\* university, whose stages contain the stage of the profile, and whose
\* country list is empty or contains the current country of the profile or
\* "All".
C22_FirstThreeQualifying ==
    Matched =>
        LET matched == scholarships[1].matched
        IN  /\ Len(matched) = Min(3, Cardinality(QualifyingPositions))
            /\ \A k \in 1..Len(matched) :
                  matched[k] = SCHOLARSHIPS[KthPosition(QualifyingPositions, k)]

\* four scholarships qualify, one of them by "All" and one by the country of
\* the applicant, and the catalog holds one that does not qualify
C22_Witness ==
    /\ Matched
    /\ Cardinality(QualifyingPositions) = 4
    /\ Len(SCHOLARSHIPS) > 4
    /\ Len(scholarships[1].matched) = 3
    /\ \E i \in QualifyingPositions : SCHOLARSHIPS[i].eligibility.countries = {"All"}
    /\ \E i \in QualifyingPositions : SCHOLARSHIPS[i].eligibility.countries = {"India"}

(***************************************************************************)
(* Timelines                                                               *)
(***************************************************************************)
\* the date a number of whole days after a date
DaysAfter(date, days) == [day |-> date.day + days, ms |-> date.ms]

\* date a comes before date b
Before(a, b) == a.day < b.day \/ (a.day = b.day /\ a.ms < b.ms)

\* the timeline holds the three milestones of the claim, measured from now
ThreeMilestones(timeline, now) ==
    /\ Len(timeline) = 3
    /\ timeline[1].title = "Application Deadline"
    /\ timeline[2].title = "Visa Application"
    /\ timeline[3].title = "Program Starts"
    /\ timeline[1].date = DaysAfter(now, 180)
    /\ timeline[2].date = DaysAfter(now, 270)
    /\ timeline[3].date = DaysAfter(now, 365)
    /\ Before(now, timeline[1].date)
    /\ Before(timeline[1].date, timeline[2].date)
    /\ Before(timeline[2].date, timeline[3].date)
    /\ timeline[2].date = DaysAfter(timeline[1].date, 90)
    /\ timeline[3].date = DaysAfter(timeline[2].date, 95)

\* C23: the timeline of every path has exactly three milestones, in this
\* order: Application Deadline 180 days, Visa Application 270 days and
\* Program Start 365 days after the one instant at which the request is
\* answered, so the dates increase strictly and lie 90 and 95 days apart.
C23_ThreeMilestones ==
    [][request' # NoRequest /\ clock' = clock =>
          \A k \in 1..Len(response'.paths) :
              ThreeMilestones(response'.paths[k].timeline, clock)]_vars

\* a request answered again after midnight has passed
C23_Witness ==
    /\ previous.request = request
    /\ clock.ms = 0
    /\ Len(response.paths) > 0
    /\ response.paths[1].timeline[1].date # previous.response.paths[1].timeline[1].date
    /\ ThreeMilestones(response.paths[1].timeline, clock)

(***************************************************************************)
(* Exclusions                                                              *)
(***************************************************************************)
\* the four conditions of the claim on the university last built, in order
ExclusionConditions ==
    <<path[1].university.workloadIntensity >= 9,
      path[1].university.tuition.tier = "high",
      /\ path[1].university.languageRequirements.primary # "English"
      /\ "English" \notin path[1].university.languageRequirements.alternatives,
      path[1].university.acceptanceRate < 10>>

\* the entry that stands for each condition
ExclusionEntries ==
    <<"you prefer a relaxed academic environment",
      "you have strict budget constraints",
      "you're not comfortable learning in "
          \o path[1].university.languageRequirements.primary,
      "you need a safer acceptance option">>

\* C24: notForYouIf holds an entry for each of the four conditions that is
\* true of the university (workload >= 9, tuition tier high, primary
\* language not English and English not an alternative, acceptance rate
\* below 10) and for no other, in that order: between 0 and 4 entries.
C24_Exclusions ==
    Built =>
        LET list == path[1].path.notForYouIf
        IN  /\ Len(list) \in 0..4
            /\ \A c \in 1..4 :
                  ExclusionConditions[c] <=> \E k \in 1..Len(list) : list[k] = ExclusionEntries[c]
            /\ \A k \in 1..Len(list) : \E c \in 1..4 : list[k] = ExclusionEntries[c]
            /\ \A k, l \in 1..Len(list) :
                  k < l => \E c, d \in 1..4 :
                      c < d /\ list[k] = ExclusionEntries[c] /\ list[l] = ExclusionEntries[d]

\* all four conditions hold, the workload being exactly 9
C24_Witness ==
    /\ Built
    /\ path[1].university.workloadIntensity = 9
    /\ \A c \in 1..4 : ExclusionConditions[c]
    /\ path[1].path.notForYouIf = ExclusionEntries

(***************************************************************************)
(* Concurrent invocations                                                  *)
(***************************************************************************)
\* what a request for the profile gives when it is the only one, on the
\* catalogs as they are
RunAlone(profile) ==
    LET scored == sortByFit(scoreAll(profile, filterEligibleUniversities(profile)))
    IN  selectDiversePaths(scored, 3)

\* the university and the fit score of every path of an answer
SelectionAndScores(paths) ==
    [k \in 1..Len(paths) |->
        [university |-> paths[k].details, fitScore |-> paths[k].fitScore]]

\* C25: generatePaths leaves the university, scholarship and country
\* catalogs as they are, in content and in order, so however the steps of
\* concurrent requests interleave, each request is answered with the
\* selection and the scores it gets when it runs alone.
C25_CatalogsUntouched ==
    [][/\ UNIVERSITIES' = UNIVERSITIES
       /\ SCHOLARSHIPS' = SCHOLARSHIPS
       /\ COUNTRIES' = COUNTRIES
       /\ \A i \in Invocations :
             inflight'[i].stage = "done" =>
                 SelectionAndScores(inflight'[i].response.paths)
                     = RunAlone(inflight'[i].request.profile)]_vars

\* a request is answered while another one, for another profile and received
\* before it, is still waiting for its body
C25_Witness ==
    \E i, j \in Invocations :
        /\ inflight[i].stage = "done"
        /\ inflight[j].stage = "parsing"
        /\ inflight[i].request # inflight[j].request
        /\ Len(inflight[i].response.paths) > 1

(***************************************************************************)
(* Paths returned, taken together                                          *)
(***************************************************************************)
\* C26: no university appears more than once among the paths returned, so
\* with the unique ids of the catalog the path ids are pairwise distinct.
C26_NoUniversityTwice ==
    Served =>
        \A k, l \in 1..Len(Paths) :
            k # l => /\ Paths[k].details # Paths[l].details
                     /\ Paths[k].id # Paths[l].id

\* the third path was added by the backfill: its country is already there
C26_Witness ==
    /\ Served
    /\ Len(Paths) = 3
    /\ Len(eligibleUniversities) > 3
    /\ Paths[3].details.country \in {Paths[1].details.country, Paths[2].details.country}
    /\ Cardinality({Paths[k].id : k \in 1..3}) = 3

(***************************************************************************)
(* Workload fit and academic risk of the same path                         *)
(***************************************************************************)
\* the workload of path k is within the workload the fit scorer tolerates
WithinTolerance(k) ==
    Paths[k].details.workloadIntensity
        <= ToleratedWorkload[request.profile.confidenceLevel]

\* C27, as stated: a university whose workload is within the workload the fit
\* scorer tolerates (5, 7, 10 for low, medium, high) never has academic risk
\* severity "high" in the same path.
C27_WithinToleranceNeverHigh ==
    Served =>
        \A k \in 1..Len(Paths) :
            WithinTolerance(k) => Paths[k].risks.academic.severity # "high"

\* C27, amended: within the tolerated workload the academic risk is "high"
\* exactly for a low-confidence profile and a workload of 4 or 5 (the fit
\* scorer tolerates 5 for low confidence, the risk assessor 3), and never
\* "high" otherwise.
C27_WithinToleranceHighOnlyLowAboveThree ==
    Served =>
        \A k \in 1..Len(Paths) :
            WithinTolerance(k) =>
                (Paths[k].risks.academic.severity = "high"
                    <=> /\ request.profile.confidenceLevel = "low"
                        /\ Paths[k].details.workloadIntensity \in {4, 5})

\* a low-confidence profile, a workload of 5: best workload fit, high risk
C27_Witness ==
    /\ Served
    /\ request.profile.confidenceLevel = "low"
    /\ \E k \in 1..Len(Paths) :
          /\ Paths[k].details.workloadIntensity = 5
          /\ Paths[k].fitScore.breakdown.workload = 100
          /\ Paths[k].risks.academic.severity = "high"
          /\ Paths[k].risks.academic.likelihood = 60

(***************************************************************************)
(* Financial risk of the paths returned                                    *)
(***************************************************************************)
\* the two descriptions of a financial risk, for the budget of the request
TuitionWarning ==
    "Tuition may exceed your " \o request.profile.budgetLevel \o " budget"
CostsManageable ==
    "Costs are manageable with " \o request.profile.budgetLevel \o " budget"

\* the first record of the country catalog named like the country of path k
\* has a high cost of living
ExpensiveCountry(k) ==
    \E i \in 1..Len(COUNTRIES) :
        /\ COUNTRIES[i].name = Paths[k].details.country
        /\ COUNTRIES[i].costOfLiving.tier = "high"
        /\ \A j \in 1..(i - 1) : COUNTRIES[j].name # Paths[k].details.country

\* C28, as stated: in every returned path the financial risk is "high" only
\* with likelihood 70 and the tuition warning, and a financial risk with
\* likelihood 30 and "Costs are manageable" is always "low".
C28_HighOnlyWithTuitionWarning ==
    Served =>
        \A k \in 1..Len(Paths) :
            LET financial == Paths[k].risks.financial
            IN  /\ financial.severity = "high"
                    => /\ financial.likelihood = 70
                       /\ financial.description = TuitionWarning
                /\ (financial.likelihood = 30 /\ financial.description = CostsManageable)
                    => financial.severity = "low"

\* C28, amended: in every returned path the financial risk is "high" only
\* with likelihood 70 and the tuition warning, or for a country of high cost
\* of living; a financial risk with likelihood 30 and "Costs are manageable"
\* is "low" exactly when the country of the university has no high cost of
\* living, and "high" when it has.
C28_HighWithWarningOrExpensiveCountry ==
    Served =>
        \A k \in 1..Len(Paths) :
            LET financial == Paths[k].risks.financial
            IN  /\ financial.severity = "high"
                    => \/ /\ financial.likelihood = 70
                          /\ financial.description = TuitionWarning
                       \/ ExpensiveCountry(k)
                /\ (financial.likelihood = 30 /\ financial.description = CostsManageable)
                    => (financial.severity = "low" <=> ~ExpensiveCountry(k))

\* a path of high severity at likelihood 30 next to one of low severity
C28_Witness ==
    /\ Served
    /\ \E k, l \in 1..Len(Paths) :
          /\ Paths[k].risks.financial.severity = "high"
          /\ Paths[k].risks.financial.likelihood = 30
          /\ Paths[k].risks.financial.description = CostsManageable
          /\ ExpensiveCountry(k)
          /\ Paths[l].risks.financial.severity = "low"
          /\ Paths[l].risks.financial.likelihood = 30
          /\ ~ExpensiveCountry(l)

(***************************************************************************)
(* Visa fear: what the paths returned say about the visa                   *)
(***************************************************************************)
\* C29: with mainFear "visa", no returned path has a visa risk of severity
\* "high" or likelihood 60, and no returned path has visa fit 20: every
\* hard-visa university is filtered out before scoring and risk assessment.
C29_VisaFearNoHighVisaRisk ==
    (Served /\ request.profile.mainFear = "visa") =>
        \A k \in 1..Len(Paths) :
            /\ Paths[k].risks.visa.severity # "high"
            /\ Paths[k].risks.visa.likelihood # 60
            /\ Paths[k].fitScore.breakdown.visa # 20
            /\ Paths[k].fitScore.breakdown.visa \in {60, 100}

\* a hard-visa university that passes the other constraints is held back
\* and a medium-visa one is returned with the strict visa fit
C29_Witness ==
    /\ Served
    /\ request.profile.mainFear = "visa"
    /\ \E u \in Catalog :
          /\ u.visaDifficulty = "hard"
          /\ u \notin Returned
          /\ TargetOk(request.profile, u) /\ BudgetOk(request.profile, u)
          /\ ConfidenceOk(request.profile, u)
    /\ \E k \in 1..Len(Paths) :
          /\ Paths[k].risks.visa.severity = "medium"
          /\ Paths[k].risks.visa.likelihood = 30
          /\ Paths[k].fitScore.breakdown.visa = 60

(***************************************************************************)
(* The profile wizard                                                      *)
(***************************************************************************)
\* the three answers handleSubmit asks for
RequiredAnswers == {"educationStage", "budgetLevel", "mainFear"}

\* the answers given, with those of the set taken back
Without(missing) ==
    [field \in DOMAIN formData |->
        IF field \in missing THEN Null ELSE formData[field]]

\* the profile in the session storage is the one made of the answers
StoredFromAnswers(storage) ==
    /\ storage.studentProfile # <<>>
    /\ \A field \in RequiredAnswers \cup {"currentCountry", "targetCountry"} :
          storage.studentProfile[1][field] = formData[field]
    /\ storage.studentProfile[1].confidenceLevel \in ConfidenceLevel

\* C30: in the profile wizard the step stays within 1..6 after any sequence
\* of next and back actions; a profile is written to the session storage,
\* followed by the navigation to the paths page, only when education stage,
\* budget level and main fear are all set; submitting with one of them
\* missing leaves the session storage and the page as they are.
C30_WizardSubmit ==
    /\ [](step \in 1..6)
    /\ [][(sessionStorage' # sessionStorage \/ pathname' # pathname)
            => /\ \A field \in RequiredAnswers : formData[field] # Null
               /\ StoredFromAnswers(sessionStorage')
               /\ pathname' = "/paths"]_vars
    /\ [](\A missing \in (SUBSET RequiredAnswers) \ {{}} :
            handleSubmit(Without(missing), sessionStorage, pathname)
                = [sessionStorage |-> sessionStorage, pathname |-> pathname])

\* the profile of a student who moved the slider down is stored and the
\* paths page is shown
C30_Witness ==
    /\ step = 6
    /\ pathname = "/paths"
    /\ sessionStorage.studentProfile # <<>>
    /\ sessionStorage.studentProfile[1].confidenceLevel = "low"
    /\ sessionStorage.studentProfile[1].mainFear = "visa"
    /\ \A field \in RequiredAnswers : formData[field] # Null

====
